---- MODULE Spec2Model ----
(***************************************************************************)
(* Protocol session of the JVC projector client.                           *)
(*                                                                         *)
(*  - JVCProjector (jvc_projector/jvc_projector.py): reconnect, the        *)
(*    three-step handshake and the command execution engine               *)
(*    _async_do_command, all sharing one asyncio.Lock.                     *)
(*  - JVCCommander (jvc_projector/command_runner.py): send_command,        *)
(*    _do_command and do_reference_op on a reader/writer pair.             *)
(*                                                                         *)
(* Coroutines are processes; a process moves from one await to the next    *)
(* in one step.  Bytes are sequences of numbers 0..255.                    *)
(***************************************************************************)
EXTENDS Integers, Sequences, FiniteSets, TLC

(***************************************************************************)
(* Bounds of the model.                                                    *)
(***************************************************************************)
NumCallers == 2
MaxBackoffSteps == 2
MaxIds == 11
MaxPolls == 1
MaxSpaces == 2
MaxLen == 4
MaxList == 2
MaxBacklog == 2

Connector == 0
Callers == 1..NumCallers
Procs == {Connector} \cup Callers
NoOne == -1

(***************************************************************************)
(* Wire constants (jvc_projector/commands.py).                             *)
(***************************************************************************)
HeaderAck == <<6>>
HeaderPjUnit == <<137, 1>>
HeaderOperation == <<33>>
HeaderReference == <<63>>
HeaderResponse == <<64>>
FooterClose == <<10>>
AckPower == <<80, 87>>
AckPicture == <<80, 77>>
PJ_OK == "PJ_OK"
PJ_ACK == "PJACK"
PJ_REQ == "PJREQ"
PJ_NAK == "PJNAK"

AckCodes == {AckPower, AckPicture}

\* the callers send the commands of the power family: "power" as an
\* operation and "power_status" as a reference, both acknowledged with PW
CommandAcks == {AckPower}
CommandTypes == {HeaderOperation, HeaderReference}

\* ack_value = Header.ack + Header.pj_unit + ack + Footer.close
AckValue(ack) == HeaderAck \o HeaderPjUnit \o ack \o FooterClose

\* what the device can put on the stream for the ack read: the ack frame of
\* any command family, or nothing (peer closed the stream)
AckReads == {AckValue(a) : a \in AckCodes} \cup {<<>>}

\* what the device can put on the stream for the payload read
PayloadReads == {HeaderResponse \o HeaderPjUnit \o AckPower \o <<49>> \o FooterClose,
                 <<>>}

GreetingReads == {PJ_OK, PJ_NAK}
HandshakeAckReads == {PJ_ACK, PJ_NAK}

VARIABLES
    lock,            \* JVCProjector._lock: its holder and the waiting coroutines
    writer,          \* JVCProjector.reader/writer: the socket of the session
    closing,         \* JVCProjector._closing
    halted,          \* JVCProjector._halted
    retry_interval,  \* JVCProjector._retry_interval, the rational num/den
    pc,              \* the await each coroutine is suspended at
    call,            \* arguments and locals of the running _async_do_command
    ret,             \* what the last command call gave its caller (with the
                     \* bytes _async_do_command returned)
    conn_ok,         \* what async_open_connection returned last
    cwriter,         \* JVCCommander.writer is not None
    cpc,             \* the await each JVCCommander coroutine is suspended at
    ccall,           \* arguments and locals of the running send_command
    cret,            \* what the last JVCCommander call gave its caller
    hs_impl,         \* the class whose handshake runs
    hs_password,     \* self.password of that object
    hs_server,       \* what is at the other end of the socket
    hs_pc,           \* the await the handshake is suspended at
    hs_transcript,   \* the reads and writes of the handshake on the socket
    hs_result,       \* what the handshake returned (or raised)
    command_queue,   \* JVCRemote.command_queue, the least entry first
    attribute_queue, \* JVCRemote.attribute_queue
    attribute_getters, \* JVCRemote.attribute_getters
    counter,         \* the next value of JVCRemote._counter
    stop_processing_commands, \* the asyncio.Event of that name is set
    resetting,       \* a reset_everything is between clear_queue and finally
    hq_pc,           \* the await handle_queue is suspended at
    hq_item,         \* (priority, item) that handle_queue took last
    uw_pc,           \* the await update_worker is suspended at
    attributes,      \* jvc_client.attributes, the attribute table
    model_family,    \* jvc_client.model_family
    device,          \* what the projector answers to each getter
    scheduled,       \* the pairs the last round of async_update_state added
    cc,              \* one call that sends a command string: impl, the
                     \* class called; raw, the string; type, command_type;
                     \* list, the string is passed in a list; writer,
                     \* JVCCommander.writer is not None; pc, where the call
                     \* is; frame, what the construction gave; written, what
                     \* was handed to the transmit step; result, what the
                     \* caller got
    fn               \* one call of a function of the library: op, its
                     \* name; arg, its argument; pc, where the call is;
                     \* result, what it returned

pvars == <<lock, writer, closing, halted, retry_interval, pc, call, ret, conn_ok>>
cvars == <<cwriter, cpc, ccall, cret>>
hvars == <<hs_impl, hs_password, hs_server, hs_pc, hs_transcript, hs_result>>
vars == <<lock, writer, closing, halted, retry_interval, pc, call, ret, conn_ok,
          cwriter, cpc, ccall, cret,
          hs_impl, hs_password, hs_server, hs_pc, hs_transcript, hs_result,
          command_queue, attribute_queue, attribute_getters, counter,
          stop_processing_commands, resetting, hq_pc, hq_item, uw_pc,
          attributes, model_family, device, scheduled, cc, fn>>
kvars == <<cc>>
fvars == <<fn>>
tvars == <<attributes, model_family, device, scheduled>>
qvars == <<command_queue, attribute_queue, attribute_getters, counter,
           stop_processing_commands, resetting, hq_pc, hq_item, uw_pc>>

\* what the actions of one part of the model leave alone
besidesProjector == <<cvars, hvars, qvars, tvars, kvars, fvars>>
besidesCommander == <<pvars, hvars, qvars, tvars, kvars, fvars>>
besidesHandshake == <<pvars, cvars, qvars, tvars, kvars, fvars>>
besidesRemote == <<pvars, cvars, hvars, kvars, fvars>>
besidesConstruct == <<pvars, cvars, hvars, qvars, tvars, fvars>>
besidesFunction == <<pvars, cvars, hvars, qvars, tvars, kvars>>

(***************************************************************************)
(* Values.                                                                 *)
(***************************************************************************)
NoWriter == [open |-> FALSE, hs |-> FALSE, stale |-> FALSE]
NewWriter == [open |-> TRUE, hs |-> FALSE, stale |-> FALSE]
NoCall == [type |-> <<>>, ack |-> <<>>, attempts |-> 0, reconnected |-> FALSE]
NoRet == [tag |-> "none", ok |-> FALSE, data |-> <<>>]
Failure(t) == [tag |-> t, ok |-> FALSE, data |-> <<>>]
Raised(t) == [tag |-> t, ok |-> FALSE, data |-> <<>>]
Success(t, d) == [tag |-> t, ok |-> TRUE, data |-> d]

(***************************************************************************)
(* JVCProjector: retry interval.                                           *)
(***************************************************************************)
InitialInterval == [num |-> 1, den |-> 1]

\* self._retry_interval = min(300, 1.5 * self._retry_interval)
IncreaseRetryInterval(iv) ==
    LET n == 3 * iv.num
        d == 2 * iv.den
    IN IF n >= 300 * d THEN [num |-> 300, den |-> 1] ELSE [num |-> n, den |-> d]

RECURSIVE Pow2(_)
Pow2(k) == IF k = 0 THEN 1 ELSE 2 * Pow2(k - 1)

\* the model lets a connection attempt fail only this many times in a row
MayFailAgain == retry_interval.den < Pow2(MaxBackoffSteps)

(***************************************************************************)
(* asyncio.Lock: the coroutines that reached "async with self._lock" wait  *)
(* in arrival order; the first of them gets the lock once nobody holds it. *)
(* The lock is not reentrant.                                              *)
(***************************************************************************)
UnlockedLock == [holder |-> NoOne, waiters |-> <<>>]

IsNext(p) == lock.waiters # <<>> /\ Head(lock.waiters) = p

\* an acquire that does not look at the holder
CanAcquire_NoExclusion(p) == IsNext(p)

CanAcquire(p) == lock.holder = NoOne /\ IsNext(p)

\* p reaches "async with self._lock"
Queued(l, p) == [l EXCEPT !.waiters = Append(@, p)]

\* p enters the block
Acquired(p) == [holder |-> p, waiters |-> Tail(lock.waiters)]

\* the holder leaves the block
Released == [lock EXCEPT !.holder = NoOne]

(***************************************************************************)
(* JVCProjector: close(), halt(), resume().                                *)
(***************************************************************************)
Close ==
    /\ ~closing
    /\ closing' = TRUE
    /\ UNCHANGED <<lock, writer, halted, retry_interval, pc, call, ret, conn_ok>>
    /\ UNCHANGED besidesProjector

Halt ==
    /\ ~halted
    /\ halted' = TRUE
    /\ UNCHANGED <<lock, writer, closing, retry_interval, pc, call, ret, conn_ok>>
    /\ UNCHANGED besidesProjector

Resume ==
    /\ halted
    /\ halted' = FALSE
    /\ UNCHANGED <<lock, writer, closing, retry_interval, pc, call, ret, conn_ok>>
    /\ UNCHANGED besidesProjector

(***************************************************************************)
(* JVCProjector.reconnect, run by async_open_connection (the Connector)    *)
(* or, through connection_lost, inside a caller's _async_do_command.       *)
(***************************************************************************)
\* reconnect() returns: to async_open_connection, or to line 261 of the
\* _async_do_command that awaited connection_lost()
ReconnectReturns(p, success) ==
    IF p = Connector
    THEN /\ pc' = [pc EXCEPT ![p] = "idle"]
         /\ conn_ok' = IF success THEN "ok" ELSE "failed"
         /\ UNCHANGED call
    ELSE /\ pc' = [pc EXCEPT ![p] = "dc_rewrite"]
         /\ call' = [call EXCEPT ![p].reconnected = success]
         /\ UNCHANGED conn_ok

OpenConnection ==
    /\ pc[Connector] = "idle"
    /\ pc' = [pc EXCEPT ![Connector] = "rc_top"]
    /\ conn_ok' = "none"
    /\ UNCHANGED <<lock, writer, closing, halted, retry_interval, call, ret>>
    /\ UNCHANGED besidesProjector

\* top of the while loop: if self._halted: await asyncio.sleep(2)
RcTop(p) ==
    /\ pc[p] = "rc_top"
    /\ IF halted
       THEN /\ pc' = [pc EXCEPT ![p] = "rc_halt_sleep"]
            /\ UNCHANGED lock
       ELSE /\ pc' = [pc EXCEPT ![p] = "rc_lock1"]
            /\ lock' = Queued(lock, p)
    /\ UNCHANGED <<writer, closing, halted, retry_interval, call, ret, conn_ok>>
    /\ UNCHANGED besidesProjector

RcHaltSleep(p) ==
    /\ pc[p] = "rc_halt_sleep"
    /\ pc' = [pc EXCEPT ![p] = "rc_lock1"]
    /\ lock' = Queued(lock, p)
    /\ UNCHANGED <<writer, closing, halted, retry_interval, call, ret, conn_ok>>
    /\ UNCHANGED besidesProjector

\* first "async with self._lock"
RcAcquire1(p) ==
    /\ pc[p] = "rc_lock1"
    /\ CanAcquire(p)
    /\ lock' = Acquired(p)
    /\ pc' = [pc EXCEPT ![p] = "rc_open"]
    /\ UNCHANGED <<writer, closing, halted, retry_interval, call, ret, conn_ok>>
    /\ UNCHANGED besidesProjector

\* the except handlers of reconnect (OSError, asyncio.TimeoutError)
RcFailed(p) ==
    /\ retry_interval' = IncreaseRetryInterval(retry_interval)
    /\ IF ~closing
       THEN ReconnectReturns(p, FALSE)
       ELSE /\ pc' = [pc EXCEPT ![p] = "rc_backoff"]
            /\ UNCHANGED <<conn_ok, call>>

\* asyncio.open_connection inside the first lock block
RcOpen(p) ==
    /\ pc[p] = "rc_open"
    /\ \E outcome \in {"ok", "OSError", "TimeoutError"} :
         IF outcome = "ok"
         THEN /\ writer' = NewWriter
              /\ lock' = Queued(Released, p)
              /\ pc' = [pc EXCEPT ![p] = "rc_lock2"]
              /\ UNCHANGED <<retry_interval, conn_ok, call>>
         ELSE /\ MayFailAgain
              /\ lock' = Released
              /\ RcFailed(p)
              /\ UNCHANGED writer
    /\ UNCHANGED <<closing, halted, ret>>
    /\ UNCHANGED besidesProjector

\* await asyncio.sleep(interval), then the loop starts over
RcBackoff(p) ==
    /\ pc[p] = "rc_backoff"
    /\ pc' = [pc EXCEPT ![p] = "rc_top"]
    /\ UNCHANGED <<lock, writer, closing, halted, retry_interval, call, ret, conn_ok>>
    /\ UNCHANGED besidesProjector

\* second "async with self._lock"
RcAcquire2(p) ==
    /\ pc[p] = "rc_lock2"
    /\ CanAcquire(p)
    /\ lock' = Acquired(p)
    /\ pc' = [pc EXCEPT ![p] = "hs_greeting"]
    /\ UNCHANGED <<writer, closing, halted, retry_interval, call, ret, conn_ok>>
    /\ UNCHANGED besidesProjector

(***************************************************************************)
(* JVCProjector._async_handshake.                                          *)
(***************************************************************************)
\* msg_pjok = await self.reader.read(len(self.PJ_OK))
HsReadGreeting(p) ==
    /\ pc[p] = "hs_greeting"
    /\ \E msg_pjok \in GreetingReads :
         IF msg_pjok # PJ_OK
         THEN /\ lock' = Released
              /\ ReconnectReturns(p, FALSE)
         ELSE /\ pc' = [pc EXCEPT ![p] = "hs_request"]
              /\ UNCHANGED <<lock, conn_ok, call>>
    /\ UNCHANGED <<writer, closing, halted, retry_interval, ret>>
    /\ UNCHANGED besidesProjector

\* self.writer.write(pj_req); await self.writer.drain()
HsWriteRequest(p) ==
    /\ pc[p] = "hs_request"
    /\ \E outcome \in {"ok", "TimeoutError", "ConnectionError"} :
         CASE outcome = "ok" ->
                /\ pc' = [pc EXCEPT ![p] = "hs_ack"]
                /\ UNCHANGED <<lock, retry_interval, conn_ok, call>>
           [] outcome = "TimeoutError" ->
                /\ lock' = Released
                /\ ReconnectReturns(p, FALSE)
                /\ UNCHANGED retry_interval
           [] outcome = "ConnectionError" ->
                /\ MayFailAgain
                /\ lock' = Released
                /\ RcFailed(p)
    /\ UNCHANGED <<writer, closing, halted, ret>>
    /\ UNCHANGED besidesProjector

\* msg_pjack = await self.reader.read(len(self.PJ_ACK)); on success
\* reconnect resets the retry interval and returns ("Connection done", True)
HsReadAck(p) ==
    /\ pc[p] = "hs_ack"
    /\ lock' = Released
    /\ \E msg_pjack \in HandshakeAckReads :
         IF msg_pjack # PJ_ACK
         THEN /\ ReconnectReturns(p, FALSE)
              /\ UNCHANGED <<writer, retry_interval>>
         ELSE /\ writer' = [writer EXCEPT !.hs = TRUE]
              /\ retry_interval' = InitialInterval
              /\ ReconnectReturns(p, TRUE)
    /\ UNCHANGED <<closing, halted, ret>>
    /\ UNCHANGED besidesProjector

(***************************************************************************)
(* JVCProjector._async_send_command / _async_do_command, one command.      *)
(***************************************************************************)
\* the call returns to its caller (the lock is released by "async with")
Returns(p, r) ==
    /\ lock' = Released
    /\ pc' = [pc EXCEPT ![p] = "idle"]
    /\ ret' = [ret EXCEPT ![p] = r]
    /\ call' = [call EXCEPT ![p] = NoCall]

SendCommand(p) ==
    /\ pc[p] = "idle"
    /\ \E t \in CommandTypes, a \in CommandAcks :
         call' = [call EXCEPT ![p] = [type |-> t, ack |-> a, attempts |-> 0,
                                     reconnected |-> FALSE]]
    /\ ret' = [ret EXCEPT ![p] = NoRet]
    /\ pc' = [pc EXCEPT ![p] = "dc_lock"]
    /\ lock' = Queued(lock, p)
    /\ UNCHANGED <<writer, closing, halted, retry_interval, conn_ok>>
    /\ UNCHANGED besidesProjector

\* async with self._lock
DcAcquire(p) ==
    /\ pc[p] = "dc_lock"
    /\ CanAcquire(p)
    /\ lock' = Acquired(p)
    /\ pc' = [pc EXCEPT ![p] = "dc_write"]
    /\ UNCHANGED <<writer, closing, halted, retry_interval, call, ret, conn_ok>>
    /\ UNCHANGED besidesProjector

\* self.writer.write(command); await self.writer.drain(); a ConnectionError
\* goes to connection_lost(), which calls reconnect() unless closing
DcWrite(p) ==
    /\ pc[p] = "dc_write"
    /\ IF ~writer.open
       THEN Returns(p, Raised("AttributeError"))
       ELSE \E outcome \in {"ok", "ConnectionError"} :
              /\ UNCHANGED <<lock, ret>>
              /\ call' = [call EXCEPT ![p].attempts = 1]
              /\ pc' = [pc EXCEPT ![p] =
                          IF outcome = "ok" THEN "dc_read_ack"
                          ELSE IF ~closing THEN "rc_top" ELSE "dc_rewrite"]
    /\ UNCHANGED <<writer, closing, halted, retry_interval, conn_ok>>
    /\ UNCHANGED besidesProjector

\* after connection_lost(): self.writer.write(command); await self.writer.drain()
DcRewrite(p) ==
    /\ pc[p] = "dc_rewrite"
    /\ \E outcome \in {"ok", "ConnectionError"} :
         IF outcome = "ok"
         THEN /\ pc' = [pc EXCEPT ![p] = "dc_read_ack"]
              /\ call' = [call EXCEPT ![p].attempts = call[p].attempts + 1]
              /\ UNCHANGED <<lock, ret>>
         ELSE Returns(p, Raised("ConnectionError"))
    /\ UNCHANGED <<writer, closing, halted, retry_interval, conn_ok>>
    /\ UNCHANGED besidesProjector

\* the comparison of lines 287 and 293
AckMatches(received_ack, ack_value) == received_ack = ack_value

\* received_ack = await self.reader.read(len(ack_value)) and what follows
DcReadAck(p) ==
    /\ pc[p] = "dc_read_ack"
    /\ \/ \E received_ack \in AckReads :
            IF AckMatches(received_ack, AckValue(call[p].ack))
            THEN IF call[p].type = HeaderOperation
                 THEN /\ Returns(p, Success("ok", received_ack))
                      /\ UNCHANGED writer
                 ELSE /\ pc' = [pc EXCEPT ![p] = "dc_read_msg"]
                      /\ UNCHANGED <<lock, writer, call, ret>>
            ELSE /\ Returns(p, Failure("UnexpectedAck"))
                 /\ UNCHANGED writer
       \/ /\ Returns(p, Failure("CommandTimeout"))
          /\ writer' = [writer EXCEPT !.stale = TRUE]
       \/ /\ Returns(p, Failure("ConnectionRefused"))
          /\ UNCHANGED writer
       \/ /\ Returns(p, Raised("ReadError"))
          /\ UNCHANGED writer
    /\ UNCHANGED <<closing, halted, retry_interval, conn_ok>>
    /\ UNCHANGED besidesProjector

\* message = await self.reader.read(1024); return message, True
DcReadMessage(p) ==
    /\ pc[p] = "dc_read_msg"
    /\ \/ \E message \in PayloadReads : Returns(p, Success("value", message))
       \/ Returns(p, Raised("ReadError"))
    /\ UNCHANGED <<writer, closing, halted, retry_interval, conn_ok>>
    /\ UNCHANGED besidesProjector

(***************************************************************************)
(* JVCCommander.replace_headers.                                           *)
(***************************************************************************)
\* bytes.replace(pat, b""): drop the occurrences of pat, left to right
RECURSIVE Replace(_, _)
Replace(item, pat) ==
    IF Len(item) < Len(pat) THEN item
    ELSE IF SubSeq(item, 1, Len(pat)) = pat
         THEN Replace(SubSeq(item, Len(pat) + 1, Len(item)), pat)
         ELSE <<Head(item)>> \o Replace(Tail(item), pat)

\* headers = [x.value for x in Header] + [x.value for x in Footer]
Headers == <<HeaderAck, HeaderPjUnit, HeaderOperation, HeaderReference,
             HeaderResponse, FooterClose>>

RECURSIVE ReplaceFrom(_, _)
ReplaceFrom(item, i) ==
    IF i > Len(Headers) THEN item
    ELSE ReplaceFrom(Replace(item, Headers[i]), i + 1)

replace_headers(item) == ReplaceFrom(item, 1)

(***************************************************************************)
(* JVCCommander.send_command / _do_command / do_reference_op.              *)
(***************************************************************************)
NotRead == <<-1>>
NoCCall == [type |-> <<>>, ack |-> <<>>, ref_op |-> FALSE,
            msg |-> NotRead, ref_msg |-> NotRead]

\* the payloads the device can put on the stream in JVCCommander's exchange
CPayloadReads == PayloadReads \cup
                 {HeaderAck \o HeaderPjUnit \o AckPower \o <<49>> \o FooterClose}

\* send_command caught the error and returns (str(err), False); through
\* do_reference_op that tuple goes to replace_headers, which raises
CommandFailed(c, tag) ==
    IF c.ref_op THEN Raised("AttributeError") ELSE Failure(tag)

\* the value of a reference exchange: ref_msg.replace(ack_value, b""), and
\* through do_reference_op replace_headers of it
ReferenceValue(c, ref_msg) ==
    LET v == Replace(ref_msg, AckValue(c.ack))
    IN IF c.ref_op THEN replace_headers(v) ELSE v

\* the result of the ack read of an operation command (lines 189-193)
OperationResult(msg, ack_value) == Success("ok", msg)

\* send_command or do_reference_op is called; _do_command runs up to its
\* first read
CSendCommand(p) ==
    /\ cpc[p] = "idle"
    /\ \E t \in CommandTypes, a \in CommandAcks, r \in BOOLEAN :
         /\ r => t = HeaderReference
         /\ ccall' = [ccall EXCEPT ![p] =
                        [type |-> t, ack |-> a, ref_op |-> r,
                         msg |-> NotRead, ref_msg |-> NotRead]]
    /\ IF ~cwriter
       THEN /\ cret' = [cret EXCEPT ![p] = Raised("ConnectionClosedError")]
            /\ UNCHANGED cpc
       ELSE \E outcome \in {"ok", "BrokenPipeError", "ConnectionResetError",
                            "ConnectionError"} :
              IF outcome = "ok"
              THEN /\ cpc' = [cpc EXCEPT ![p] = "c_read_ack"]
                   /\ cret' = [cret EXCEPT ![p] = NoRet]
              ELSE /\ cret' = [cret EXCEPT ![p] = Raised("ConnectionClosedError")]
                   /\ UNCHANGED cpc
    /\ UNCHANGED cwriter
    /\ UNCHANGED besidesCommander

CReturns(p, r) ==
    /\ cpc' = [cpc EXCEPT ![p] = "idle"]
    /\ cret' = [cret EXCEPT ![p] = r]

\* msg = await self.reader.read(len(ack_value)) and what follows
CReadAck(p) ==
    /\ cpc[p] = "c_read_ack"
    /\ \/ \E msg \in AckReads :
            /\ ccall' = [ccall EXCEPT ![p].msg = msg]
            /\ IF msg = <<>>
               THEN CReturns(p, CommandFailed(ccall[p], "BlankMessage"))
               ELSE IF ccall[p].type = HeaderOperation
                    THEN CReturns(p, OperationResult(msg, AckValue(ccall[p].ack)))
                    ELSE /\ cpc' = [cpc EXCEPT ![p] = "c_read_msg"]
                         /\ UNCHANGED cret
       \/ /\ CReturns(p, CommandFailed(ccall[p], "CommandTimeout"))
          /\ UNCHANGED ccall
       \/ /\ CReturns(p, Raised("UnboundLocalError"))
          /\ UNCHANGED ccall
    /\ UNCHANGED cwriter
    /\ UNCHANGED besidesCommander

\* ref_msg = await self.reader.read(1000) and what follows
CReadMessage(p) ==
    /\ cpc[p] = "c_read_msg"
    /\ \/ \E ref_msg \in CPayloadReads :
            /\ ccall' = [ccall EXCEPT ![p].ref_msg = ref_msg]
            /\ CReturns(p, Success("value", ReferenceValue(ccall[p], ref_msg)))
       \/ /\ CReturns(p, CommandFailed(ccall[p], "CommandTimeout"))
          /\ UNCHANGED ccall
       \/ /\ CReturns(p, Raised("UnboundLocalError"))
          /\ UNCHANGED ccall
    /\ UNCHANGED cwriter
    /\ UNCHANGED besidesCommander

(***************************************************************************)
(* The three-step handshake on its own, with its transcript:               *)
(* JVCProjector._async_handshake, Connection._async_handshake and          *)
(* AsyncJVCProjector._handshake, against the mock server JVCMock or        *)
(* against a device that may answer anything.                              *)
(***************************************************************************)
HandshakeImpls == {"JVCProjector", "Connection", "AsyncJVCProjector"}
HandshakeServers == {"JVCMock", "device"}

\* the password JVCMock is constructed with
MockPassword == "12345678"

\* self.password: not configured, the one of the mock, another one
Passwords == {"", MockPassword, "87654321"}

\* a request that never carries the password
PjReq_NoPassword(password) == PJ_REQ

\* pj_req = self.PJ_REQ + f"_{self.password}".encode() if self.password
\* else self.PJ_REQ
PjReq(password) ==
    IF password # "" THEN PJ_REQ \o "_" \o password ELSE PJ_REQ

\* reader.read(n) of the mock: at most the first n bytes
Take(data, n) == IF Len(data) <= n THEN data ELSE SubSeq(data, 1, n)

\* pat in data
RECURSIVE Contains(_, _)
Contains(data, pat) ==
    IF Len(data) < Len(pat) THEN FALSE
    ELSE IF SubSeq(data, 1, Len(pat)) = pat THEN TRUE
         ELSE Contains(SubSeq(data, 2, Len(data)), pat)

\* the positions of b"_" in data
Underscores(data) == {i \in 1..Len(data) : SubSeq(data, i, i) = "_"}

\* JVCMock.async_listen after the greeting: the reply to what the client
\* wrote.  _, password = pjreq_data.split(b"_") raises ValueError unless
\* there is exactly one b"_", and then password is None.
MockReply(written) ==
    LET pjreq_data == Take(written, 16)
        us == Underscores(pjreq_data)
    IN IF ~Contains(pjreq_data, PJ_REQ) THEN PJ_NAK
       ELSE IF Cardinality(us) # 1 THEN PJ_ACK
       ELSE LET i == CHOOSE j \in us : TRUE
                password == SubSeq(pjreq_data, i + 1, Len(pjreq_data))
            IN IF password = MockPassword THEN PJ_ACK ELSE PJ_NAK

\* what a device can put on the stream for the two reads: the literal,
\* another literal, the beginning of the literal, nothing
HsGreetingReads == GreetingReads \cup {"PJ_", ""}
HsAckReads == HandshakeAckReads \cup {"PJA", ""}

\* a handshake that takes any greeting
GreetingAccepted_Any(msg_pjok) == TRUE

\* if msg_pjok != self.PJ_OK: return result, False
GreetingAccepted(msg_pjok) == msg_pjok = PJ_OK

\* if msg_pjack != self.PJ_ACK: return ..., False
AckAccepted(msg_pjack) == msg_pjack = PJ_ACK

\* reader.readexactly(n) raises IncompleteReadError when the stream ends
\* before n bytes; reader.read(n) returns what there is
IncompleteRead(msg, n) == hs_impl = "AsyncJVCProjector" /\ Len(msg) < n

Read(msg) == [op |-> "read", data |-> msg]
Write(msg) == [op |-> "write", data |-> msg]

HsFinish(r) ==
    /\ hs_pc' = "done"
    /\ hs_result' = r

\* msg_pjok = await self.reader.read(len(self.PJ_OK)) and the test of it
HandshakeReadGreeting ==
    /\ hs_pc = "greeting"
    /\ \E msg_pjok \in IF hs_server = "JVCMock" THEN {PJ_OK} ELSE HsGreetingReads :
         /\ hs_transcript' = Append(hs_transcript, Read(msg_pjok))
         /\ IF IncompleteRead(msg_pjok, Len(PJ_OK))
            THEN HsFinish(Failure("IncompleteReadError"))
            ELSE IF ~GreetingAccepted(msg_pjok)
                 THEN HsFinish(Failure("greeting"))
                 ELSE /\ hs_pc' = "request"
                      /\ UNCHANGED hs_result
    /\ UNCHANGED <<hs_impl, hs_password, hs_server>>
    /\ UNCHANGED besidesHandshake

\* self.writer.write(pj_req); await self.writer.drain()
HandshakeWriteRequest ==
    /\ hs_pc = "request"
    /\ hs_transcript' = Append(hs_transcript, Write(PjReq(hs_password)))
    /\ \E outcome \in {"ok", "TimeoutError", "ConnectionError"} :
         CASE outcome = "ok" ->
                /\ hs_pc' = "ack"
                /\ UNCHANGED hs_result
           [] outcome = "TimeoutError" ->
                IF hs_impl = "AsyncJVCProjector"
                THEN HsFinish(Raised("TimeoutError"))
                ELSE HsFinish(Failure("Timeout sending PJREQ"))
           [] outcome = "ConnectionError" ->
                HsFinish(Raised("ConnectionError"))
    /\ UNCHANGED <<hs_impl, hs_password, hs_server>>
    /\ UNCHANGED besidesHandshake

\* msg_pjack = await self.reader.read(len(self.PJ_ACK)) and the test of it
HandshakeReadAck ==
    /\ hs_pc = "ack"
    /\ \E msg_pjack \in IF hs_server = "JVCMock"
                        THEN {MockReply(hs_transcript[Len(hs_transcript)].data)}
                        ELSE HsAckReads :
         /\ hs_transcript' = Append(hs_transcript, Read(msg_pjack))
         /\ IF IncompleteRead(msg_pjack, Len(PJ_ACK))
            THEN HsFinish(Failure("IncompleteReadError"))
            ELSE IF ~AckAccepted(msg_pjack)
                 THEN HsFinish(Failure("ack"))
                 ELSE IF hs_impl = "AsyncJVCProjector"
                      THEN /\ hs_pc' = "model"
                           /\ UNCHANGED hs_result
                      ELSE HsFinish(Success("ok", <<>>))
    /\ UNCHANGED <<hs_impl, hs_password, hs_server>>
    /\ UNCHANGED besidesHandshake

\* self.model_family = await self._get_modelfamily(): its first statement
\* adds the tuple Commands.get_model.value to bytes and raises TypeError
HandshakeGetModelFamily ==
    /\ hs_pc = "model"
    /\ HsFinish(Raised("TypeError"))
    /\ UNCHANGED <<hs_impl, hs_password, hs_server, hs_transcript>>
    /\ UNCHANGED besidesHandshake

(***************************************************************************)
(* JVCRemote (tests/test_loop.py): the command queue with its two          *)
(* producers (async_send_command, update_worker fed by make_updates and    *)
(* async_update_state) and its consumer handle_queue.                      *)
(*                                                                         *)
(* A queue entry is the tuple the code puts: (priority, item), item being  *)
(* (unique_id, command) or (unique_id, getter, attribute).                 *)
(***************************************************************************)
\* if self.command_queue.qsize() > 10
QueueFullOver == 10

\* the commands callers send, the (getter, attribute) pairs polled
RemoteCommands == {"menu,on"}
Getters == {<<"is_on", "power_state">>}

NoItem == <<>>

CommandEntry(unique_id, command) == <<0, <<unique_id, command>>>>
PollEntry(item) == <<1, item>>

\* an order of the heap that only looks at the unique id
Before_NoPriority(x, y) == x[2][1] < y[2][1]

\* the order of asyncio.PriorityQueue: tuples compare element by element,
\* the priority first, then the unique id of the item
Before(x, y) == x[1] < y[1] \/ (x[1] = y[1] /\ x[2][1] < y[2][1])

\* the position of the entry command_queue.get() returns
MinOf(q) ==
    CHOOSE i \in 1..Len(q) : \A j \in 1..Len(q) : j # i => Before(q[i], q[j])

Remove(q, i) == SubSeq(q, 1, i - 1) \o SubSeq(q, i + 1, Len(q))

\* the polls that wait in attribute_getters, attribute_queue, command_queue
PollsOutstanding ==
    Cardinality(attribute_getters) + Len(attribute_queue)
        + Cardinality({i \in 1..Len(command_queue) : command_queue[i][1] = 1})

\* command_queue.put(e): the entry takes its place in the order of the heap
Insert(q, e) ==
    LET k == Cardinality({i \in 1..Len(q) : Before(q[i], e)})
    IN SubSeq(q, 1, k) \o <<e>> \o SubSeq(q, k + 1, Len(q))

\* unique_id = await self.generate_unique_id();
\* await self.command_queue.put((0, (unique_id, command)))
AsyncSendCommand ==
    /\ counter < MaxIds
    /\ \E command \in RemoteCommands :
         command_queue' = Insert(command_queue, CommandEntry(counter, command))
    /\ counter' = counter + 1
    /\ UNCHANGED <<attribute_queue, attribute_getters, stop_processing_commands,
                   resetting, hq_pc, hq_item, uw_pc>>
    /\ UNCHANGED tvars
    /\ UNCHANGED besidesRemote

\* the families of model_map, and what an unmapped model code resolves to
Families == {"Unsupported", "NX5", "NX9", "NZ7"}

\* values the getters of software_version and content_type_trans give
SoftwareVersions == {"", "2.00", "3.00"}
ContentTypeTransNames == {"sdr", "hdr10", "hlg"}

\* the value of a decimal digit, -1 for any other character
DigitValue(c) ==
    IF \E d \in 0..9 : ToString(d) = c
    THEN CHOOSE d \in 0..9 : ToString(d) = c
    ELSE -1

\* float(s) does not raise ValueError, for the strings "d.dd"
IsFloat(s) ==
    /\ Len(s) = 4
    /\ SubSeq(s, 2, 2) = "."
    /\ \A i \in {1, 3, 4} : DigitValue(SubSeq(s, i, i)) >= 0

\* float(s), in hundredths
FloatHundredths(s) ==
    100 * DigitValue(SubSeq(s, 1, 1)) + 10 * DigitValue(SubSeq(s, 3, 3))
        + DigitValue(SubSeq(s, 4, 4))

\* float(software_version) >= 3.00
LaserValueFrom == 300

\* the (getter, attribute) pairs one round of async_update_state adds to
\* attribute_getters, read off the table attrs and the family
UpdateStateGetters(attrs, family) ==
    {<<"is_on", "power_state">>, <<"get_test_command", "picture_mode">>}
    \cup
    (IF attrs.power_state
     THEN {<<"get_source_status", "signal_status">>,
           <<"get_picture_mode", "picture_mode">>,
           <<"get_software_version", "software_version">>}
          \cup
          (IF attrs.signal_status = TRUE
           THEN {<<"get_content_type", "content_type">>,
                 <<"get_content_type_trans", "content_type_trans">>,
                 <<"get_input_mode", "input_mode">>,
                 <<"get_anamorphic", "anamorphic_mode">>,
                 <<"get_source_display", "resolution">>}
           ELSE {})
          \cup
          (IF ~Contains(family, "Unsupported")
           THEN {<<"get_install_mode", "installation_mode">>,
                 <<"get_aspect_ratio", "aspect_ratio">>,
                 <<"get_color_mode", "color_mode">>,
                 <<"get_input_level", "input_level">>,
                 <<"get_mask_mode", "mask_mode">>}
           ELSE {})
          \cup
          (IF Contains(family, "NX9") \/ Contains(family, "NZ")
           THEN {<<"get_eshift_mode", "eshift">>}
           ELSE {})
          \cup
          (IF Contains(family, "NZ")
           THEN {<<"get_laser_power", "laser_power">>,
                 <<"get_laser_mode", "laser_mode">>,
                 <<"is_ll_on", "low_latency">>,
                 <<"get_lamp_time", "laser_time">>}
           ELSE {<<"get_lamp_power", "lamp_power">>,
                 <<"get_lamp_time", "lamp_time">>})
          \cup
          (IF /\ Contains(family, "NZ")
              /\ IsFloat(attrs.software_version)
              /\ FloatHundredths(attrs.software_version) >= LaserValueFrom
           THEN {<<"get_laser_value", "laser_value">>}
           ELSE {})
          \cup
          (IF \/ Contains(attrs.content_type_trans, "hdr")
              \/ Contains(attrs.content_type_trans, "hlg")
           THEN (IF Contains(family, "NZ")
                 THEN {<<"get_theater_optimizer_state", "theater_optimizer">>}
                 ELSE {})
                \cup {<<"get_hdr_processing", "hdr_processing">>,
                      <<"get_hdr_level", "hdr_level">>,
                      <<"get_hdr_data", "hdr_data">>}
           ELSE {})
     ELSE {})

\* one round of async_update_state: the pairs are added to attribute_getters
\* (the model follows the pairs of Getters through the queues and keeps the
\* whole round in scheduled), then attributes.model = model_family
AsyncUpdateStateUpTo(polls) ==
    /\ PollsOutstanding < polls
    /\ \A g \in Getters : g \notin attribute_getters
    /\ scheduled' = UpdateStateGetters(attributes, model_family)
    /\ attribute_getters' = attribute_getters \cup (scheduled' \cap Getters)
    /\ attributes' = [attributes EXCEPT !.model = model_family]
    /\ UNCHANGED <<command_queue, attribute_queue, counter,
                   stop_processing_commands, resetting, hq_pc, hq_item, uw_pc>>
    /\ UNCHANGED <<model_family, device>>
    /\ UNCHANGED besidesRemote

\* a round that starts when no poll of an earlier round is left
AsyncUpdateState == AsyncUpdateStateUpTo(MaxPolls)

\* a round that starts while polls of earlier rounds wait in the queues
\* (handle_queue is busy or update_worker holds back)
AsyncUpdateStateBacklog ==
    /\ counter < MaxIds
    /\ AsyncUpdateStateUpTo(MaxBacklog)

\* the orders in which "for getter, name in attrs" can go through the set
Orderings(S) ==
    {f \in [1..Cardinality(S) -> S] :
        \A i, j \in 1..Cardinality(S) : i # j => f[i] # f[j]}

\* a round that discards the pairs and puts nothing on attribute_queue
MakeUpdates_DiscardOnly ==
    /\ attribute_getters # {}
    /\ attribute_getters' = {}
    /\ UNCHANGED <<command_queue, attribute_queue, counter,
                   stop_processing_commands, resetting, hq_pc, hq_item, uw_pc>>
    /\ UNCHANGED tvars
    /\ UNCHANGED besidesRemote

\* one round of make_updates: every pair of attribute_getters gets a unique
\* id, is put on attribute_queue and is discarded from the set
MakeUpdates ==
    /\ attribute_getters # {}
    /\ counter + Cardinality(attribute_getters) <= MaxIds
    /\ \E attrs \in Orderings(attribute_getters) :
         attribute_queue' = attribute_queue \o
             [i \in 1..Cardinality(attribute_getters) |->
                 <<counter + i - 1, attrs[i][1], attrs[i][2]>>]
    /\ attribute_getters' = {}
    /\ counter' = counter + Cardinality(attribute_getters)
    /\ UNCHANGED <<command_queue, stop_processing_commands, resetting,
                   hq_pc, hq_item, uw_pc>>
    /\ UNCHANGED tvars
    /\ UNCHANGED besidesRemote

\* unique_id, getter, attribute = (the entry attribute_queue.get() gave);
\* await self.command_queue.put((1, (unique_id, getter, attribute)))
UwPut ==
    /\ command_queue' = Insert(command_queue, PollEntry(Head(attribute_queue)))
    /\ attribute_queue' = Tail(attribute_queue)

\* update_worker, top of the loop: the backpressure test, then
\* attribute_queue.get(), which returns at once when there is an entry
UwCheck ==
    /\ uw_pc = "uw_check"
    /\ IF Len(command_queue) > QueueFullOver
       THEN UNCHANGED <<command_queue, attribute_queue, uw_pc>>
       ELSE IF attribute_queue # <<>>
            THEN /\ UwPut
                 /\ UNCHANGED uw_pc
            ELSE /\ uw_pc' = "uw_get"
                 /\ UNCHANGED <<command_queue, attribute_queue>>
    /\ UNCHANGED <<attribute_getters, counter, stop_processing_commands,
                   resetting, hq_pc, hq_item>>
    /\ UNCHANGED tvars
    /\ UNCHANGED besidesRemote

\* update_worker resumes from await self.attribute_queue.get()
UwGet ==
    /\ uw_pc = "uw_get"
    /\ attribute_queue # <<>>
    /\ UwPut
    /\ uw_pc' = "uw_check"
    /\ UNCHANGED <<attribute_getters, counter, stop_processing_commands,
                   resetting, hq_pc, hq_item>>
    /\ UNCHANGED tvars
    /\ UNCHANGED besidesRemote

\* handle_queue: priority, item = await wait_for(self.command_queue.get(), 5)
HqGet ==
    /\ hq_pc = "hq_get"
    /\ command_queue # <<>>
    /\ LET i == MinOf(command_queue)
       IN /\ hq_item' = command_queue[i]
          /\ command_queue' = Remove(command_queue, i)
    /\ hq_pc' = "hq_run"
    /\ UNCHANGED <<attribute_queue, attribute_getters, counter,
                   stop_processing_commands, resetting, uw_pc>>
    /\ UNCHANGED tvars
    /\ UNCHANGED besidesRemote

\* the counter starts again while the command queue keeps its entries
ClearQueue_KeepsCommands ==
    /\ UNCHANGED command_queue
    /\ attribute_queue' = <<>>
    /\ counter' = 0

\* clear_queue: both queues are emptied and self._counter = itertools.count()
ClearQueue ==
    /\ command_queue' = <<>>
    /\ attribute_queue' = <<>>
    /\ counter' = 0

\* what awaiting the getter or exec_command under wait_for ends with
Outcomes == {"ok", "TimeoutError", "TypeError", "ValueError", "Exception"}

\* if len(item) == 3
IsPoll(entry) == Len(entry[2]) = 3

\* the table after the poll of entry ended with outcome: setattr(
\* self.jvc_client.attributes, attribute, value) is reached when the getter
\* returned
TableAfter_AnyOutcome(entry, outcome) ==
    IF IsPoll(entry)
    THEN [attributes EXCEPT ![entry[2][3]] = device[entry[2][3]]]
    ELSE attributes

TableAfter(entry, outcome) ==
    IF IsPoll(entry) /\ outcome = "ok"
    THEN [attributes EXCEPT ![entry[2][3]] = device[entry[2][3]]]
    ELSE attributes

\* handle_queue: the getter or the command runs under wait_for.  When it
\* returned: setattr for a poll, task_done() and sleep(0.1).  After a
\* timeout: a poll awaits jvc_client.reset_everything(), a command does
\* task_done() and continue.  TypeError, ValueError: task_done() and
\* continue.  Any other exception: reset_everything(), which sets the stop
\* signal and clears the queues before it awaits the client's reset.
HqRun ==
    /\ hq_pc = "hq_run"
    /\ \E outcome \in Outcomes :
         /\ attributes' = TableAfter(hq_item, outcome)
         /\ hq_pc' = CASE outcome = "ok" -> "hq_check_stop"
                       [] outcome = "TimeoutError" /\ IsPoll(hq_item)
                            -> "hq_poll_timeout"
                       [] outcome = "Exception" -> "hq_reset"
                       [] OTHER -> "hq_get"
         /\ hq_item' = IF hq_pc' = "hq_poll_timeout" THEN hq_item ELSE NoItem
         /\ IF outcome = "Exception"
            THEN /\ stop_processing_commands' = TRUE
                 /\ ClearQueue
            ELSE UNCHANGED <<command_queue, attribute_queue, counter,
                             stop_processing_commands>>
    /\ UNCHANGED <<attribute_getters, resetting, uw_pc>>
    /\ UNCHANGED <<model_family, device, scheduled>>
    /\ UNCHANGED besidesRemote

\* handle_queue after the timeout of a poll: jvc_client.reset_everything()
\* returned, task_done() and continue
HqPollTimeout ==
    /\ hq_pc = "hq_poll_timeout"
    /\ hq_pc' = "hq_get"
    /\ hq_item' = NoItem
    /\ UNCHANGED <<command_queue, attribute_queue, attribute_getters, counter,
                   stop_processing_commands, resetting, uw_pc>>
    /\ UNCHANGED tvars
    /\ UNCHANGED besidesRemote

\* handle_queue in except Exception: reset_everything() reaches finally:
\* self.stop_processing_commands.clear(), then continue
HqReset ==
    /\ hq_pc = "hq_reset"
    /\ stop_processing_commands' = FALSE
    /\ hq_pc' = "hq_get"
    /\ UNCHANGED <<command_queue, attribute_queue, attribute_getters, counter,
                   resetting, hq_item, uw_pc>>
    /\ UNCHANGED tvars
    /\ UNCHANGED besidesRemote

\* handle_queue: if stop_processing_commands.is_set() and not
\* command_queue.empty(): await self.clear_queue(); break.  The break
\* leaves the only loop of handle_queue: the task is finished.
HqCheckStop ==
    /\ hq_pc = "hq_check_stop"
    /\ IF stop_processing_commands /\ command_queue # <<>>
       THEN /\ ClearQueue
            /\ hq_pc' = "hq_done"
       ELSE /\ hq_pc' = "hq_get"
            /\ UNCHANGED <<command_queue, attribute_queue, counter>>
    /\ UNCHANGED <<attribute_getters, stop_processing_commands, resetting,
                   hq_item, uw_pc>>
    /\ UNCHANGED tvars
    /\ UNCHANGED besidesRemote

\* reset_everything up to await self.jvc_client.reset_everything()
ResetEverything ==
    /\ ~resetting
    /\ resetting' = TRUE
    /\ stop_processing_commands' = TRUE
    /\ ClearQueue
    /\ UNCHANGED <<attribute_getters, hq_pc, hq_item, uw_pc>>
    /\ UNCHANGED tvars
    /\ UNCHANGED besidesRemote

\* reset_everything: finally: self.stop_processing_commands.clear()
ResetFinally ==
    /\ resetting
    /\ resetting' = FALSE
    /\ stop_processing_commands' = FALSE
    /\ UNCHANGED <<command_queue, attribute_queue, attribute_getters, counter,
                   hq_pc, hq_item, uw_pc>>
    /\ UNCHANGED tvars
    /\ UNCHANGED besidesRemote

\* async_turn_off after power_off(): stop_processing_commands.set();
\* await self.clear_queue()
AsyncTurnOff ==
    /\ ~stop_processing_commands
    /\ stop_processing_commands' = TRUE
    /\ ClearQueue
    /\ UNCHANGED <<attribute_getters, resetting, hq_pc, hq_item, uw_pc>>
    /\ UNCHANGED tvars
    /\ UNCHANGED besidesRemote

\* async_turn_on after power_on(): stop_processing_commands.clear()
AsyncTurnOn ==
    /\ stop_processing_commands
    /\ stop_processing_commands' = FALSE
    /\ UNCHANGED <<command_queue, attribute_queue, attribute_getters, counter,
                   resetting, hq_pc, hq_item, uw_pc>>
    /\ UNCHANGED tvars
    /\ UNCHANGED besidesRemote

(***************************************************************************)
(* The construction of a command from its string (jvc_projector.py         *)
(* _async_construct_command, command_runner.py construct_command) and the  *)
(* sending of it (_async_send_command, send_command).                      *)
(***************************************************************************)
AckMenu == <<82, 67>>
AckModel == <<77, 68>>

\* the members of PowerModes and of MenuModes with their values
PowerModes ==
    [off |-> <<48>>, on |-> <<49>>, cooling |-> <<50>>, warming |-> <<51>>,
     emergency |-> <<52>>]

MenuModes ==
    [menu |-> <<50, 69>>, lens_control |-> <<51, 48>>, up |-> <<48, 49>>,
     down |-> <<48, 50>>, back |-> <<48, 51>>, left |-> <<51, 54>>,
     right |-> <<51, 52>>, ok |-> <<50, 70>>]

\* the members of the Enums of the picture commands with their values
PictureModes ==
    [film |-> <<48, 48>>, cinema |-> <<48, 49>>, natural |-> <<48, 51>>,
     hdr |-> <<48, 52>>, hdr10 |-> <<48, 52>>, thx |-> <<48, 54>>,
     frame_adapt_hdr |-> <<48, 66>>, frame_adapt_hdr1 |-> <<48, 66>>,
     user1 |-> <<48, 67>>, user2 |-> <<48, 68>>, user3 |-> <<48, 69>>,
     user4 |-> <<48, 70>>, user5 |-> <<49, 48>>, user6 |-> <<49, 49>>,
     hlg |-> <<49, 52>>, hdr_plus |-> <<49, 53>>, hdr10_plus |-> <<49, 53>>,
     pana_pq |-> <<49, 54>>, filmmaker |-> <<49, 55>>,
     frame_adapt_hdr2 |-> <<49, 56>>, frame_adapt_hdr3 |-> <<49, 57>>]

LowLatencyModes == [off |-> <<48>>, on |-> <<49>>]

MotionEnhanceModes == [off |-> <<48>>, low |-> <<49>>, high |-> <<50>>]

GraphicModeModes ==
    [standard |-> <<48>>, hires1 |-> <<49>>, hires2 |-> <<50>>]

LaserDimModes ==
    [off |-> <<48>>, auto1 |-> <<49>>, auto2 |-> <<50>>, auto3 |-> <<51>>]

Numeric ==
    [zero |-> <<48, 48, 48, 48>>, one |-> <<48, 48, 48, 49>>,
     two |-> <<48, 48, 48, 50>>, three |-> <<48, 48, 48, 51>>,
     four |-> <<48, 48, 48, 52>>, five |-> <<48, 48, 48, 53>>,
     six |-> <<48, 48, 48, 54>>, seven |-> <<48, 48, 48, 55>>,
     eight |-> <<48, 48, 48, 56>>, nine |-> <<48, 48, 48, 57>>,
     ten |-> <<48, 48, 48, 65>>]

\* members of Commands: the wire code, the class of the values, the ack;
\* current_output is a bare bytes value, no tuple
Commands ==
    [power |-> [code |-> <<80, 87>>, val |-> "PowerModes", ack |-> AckPower],
     power_status |->
         [code |-> <<80, 87>>, val |-> "PowerModes", ack |-> AckPower],
     menu |-> [code |-> <<82, 67, 55, 51>>, val |-> "MenuModes",
               ack |-> AckMenu],
     laser_value |-> [code |-> <<80, 77, 67, 86>>, val |-> "int",
                      ack |-> AckPicture],
     get_model |-> [code |-> <<77, 68>>, val |-> "str", ack |-> AckModel],
     picture_mode |-> [code |-> <<80, 77, 80, 77>>, val |-> "PictureModes",
                       ack |-> AckPicture],
     low_latency |-> [code |-> <<80, 77, 76, 76>>, val |-> "LowLatencyModes",
                      ack |-> AckPicture],
     enhance |-> [code |-> <<80, 77, 69, 78>>, val |-> "Numeric",
                  ack |-> AckPicture],
     motion_enhance |-> [code |-> <<80, 77, 77, 69>>,
                         val |-> "MotionEnhanceModes", ack |-> AckPicture],
     graphic_mode |-> [code |-> <<80, 77, 71, 77>>,
                       val |-> "GraphicModeModes", ack |-> AckPicture],
     laser_mode |-> [code |-> <<80, 77, 68, 67>>, val |-> "LaserDimModes",
                     ack |-> AckPicture],
     current_output |-> [code |-> <<73, 80>>, val |-> "bare", ack |-> <<>>]]

\* the Enum classes that take the place of val
ValueEnums ==
    [PowerModes |-> PowerModes, MenuModes |-> MenuModes,
     PictureModes |-> PictureModes, LowLatencyModes |-> LowLatencyModes,
     Numeric |-> Numeric, MotionEnhanceModes |-> MotionEnhanceModes,
     GraphicModeModes |-> GraphicModeModes,
     LaserDimModes |-> LaserDimModes]

\* attributes of the class Commands that are no members
ClassAttributes == {"mro", "__members__"}

\* hasattr(Commands, command)
HasAttr(command) == command \in DOMAIN Commands \cup ClassAttributes

\* raw_command.split(",")
RECURSIVE Split(_)
Split(s) ==
    IF \E i \in 1..Len(s) : SubSeq(s, i, i) = ","
    THEN LET i == CHOOSE i \in 1..Len(s) :
                    /\ SubSeq(s, i, i) = ","
                    /\ \A j \in 1..(i - 1) : SubSeq(s, j, j) # ","
         IN <<SubSeq(s, 1, i - 1)>> \o Split(SubSeq(s, i + 1, Len(s)))
    ELSE <<s>>

\* value.lstrip(" ")
RECURSIVE Lstrip(_)
Lstrip(s) ==
    IF Len(s) > 0 /\ SubSeq(s, 1, 1) = " "
    THEN Lstrip(SubSeq(s, 2, Len(s)))
    ELSE s

NotConstructed == [tag |-> "none"]
Constructed(command, ack) == [tag |-> "ok", command |-> command, ack |-> ack]
NotConstructable(message) == [tag |-> "failure", message |-> message]
ConstructRaised(exc) == [tag |-> "raised", exc |-> exc]

\* a frame without the unit bytes
Frame_NoPjUnit(command_type, command_base) ==
    command_type \o command_base \o FooterClose

\* command_type + Header.pj_unit.value + command_base + Footer.close.value
Frame(command_type, command_base) ==
    command_type \o HeaderPjUnit \o command_base \o FooterClose

\* command_name, val, ack = Commands[command].value;
\* command_base = command_name + val[value.lstrip(" ")].value; the frame
NestedEnums(command, value, command_type) ==
    IF command \notin DOMAIN Commands THEN ConstructRaised("KeyError")
    ELSE LET entry == Commands[command]
         IN IF entry.val = "bare" THEN ConstructRaised("ValueError")
            ELSE IF entry.val \notin DOMAIN ValueEnums
                 THEN ConstructRaised("TypeError")
            ELSE IF Lstrip(value) \notin DOMAIN ValueEnums[entry.val]
                 THEN ConstructRaised("KeyError")
            ELSE Constructed(
                     Frame(command_type,
                           entry.code \o ValueEnums[entry.val][Lstrip(value)]),
                     entry.ack)

\* JVCProjector._async_construct_command
AsyncConstructCommand(raw_command, command_type) ==
    LET parts == Split(raw_command)
    IN IF Len(parts) # 2
       THEN NotConstructable("No value for command provided")
       ELSE IF ~HasAttr(parts[1])
            THEN NotConstructable("Not Implemented")
            ELSE NestedEnums(parts[1], parts[2], command_type)

\* JVCCommander.construct_command
ConstructCommand(raw_command, command_type) ==
    LET parts == Split(raw_command)
    IN IF Len(parts) # 2
       THEN IF raw_command \notin DOMAIN Commands
            THEN ConstructRaised("KeyError")
            ELSE IF Commands[raw_command].val = "bare"
                 THEN ConstructRaised("TypeError")
                 ELSE Constructed(
                          Frame(command_type, Commands[raw_command].code),
                          Commands[raw_command].ack)
       ELSE IF ~HasAttr(parts[1])
            THEN NotConstructable("Not Implemented")
            ELSE NestedEnums(parts[1], parts[2], command_type)

NothingWritten == [tag |-> "none"]
WrittenBytes(frame) == [tag |-> "bytes", data |-> frame]
WrittenText(text) == [tag |-> "str", data |-> text]

NoResult == [kind |-> "none"]
Returned(value, success) ==
    [kind |-> "returned", value |-> value, success |-> success]
Raises(exc) == [kind |-> "raised", exc |-> exc]

CcDone(frame, result) ==
    cc' = [cc EXCEPT !.frame = frame, !.result = result, !.pc = "done"]

CcToTransmit(frame, written) ==
    cc' = [cc EXCEPT !.frame = frame, !.written = written, !.pc = "transmit"]

\* JVCProjector._async_send_command up to its await of _async_do_command:
\* a reference goes there as it is; otherwise the command is constructed,
\* a TypeError being caught for a command outside a list, and
\* "if not ack: return cons_command, ack" ends the call
AsyncSendCommandCall ==
    /\ cc.pc = "call"
    /\ cc.impl = "JVCProjector"
    /\ IF cc.type = HeaderReference
       THEN CcToTransmit(NotConstructed, WrittenText(cc.raw))
       ELSE LET c == AsyncConstructCommand(cc.raw, cc.type)
            IN CASE c.tag = "ok" ->
                      CcToTransmit(c, WrittenBytes(c.command))
                 [] c.tag = "failure" ->
                      CcDone(c, Returned(c.message, FALSE))
                 [] c.tag = "raised" /\ c.exc = "TypeError" /\ ~cc.list ->
                      CcDone(c, Returned(cc.raw, FALSE))
                 [] OTHER -> CcDone(c, Raises(c.exc))
    /\ UNCHANGED besidesConstruct

\* JVCCommander.send_command up to the write of _do_command: whatever
\* construct_command returned goes to _do_command, which raises
\* ConnectionClosedError without a writer and calls self.writer.write(
\* final_cmd) otherwise
CommanderSendCommandCall ==
    /\ cc.pc = "call"
    /\ cc.impl = "JVCCommander"
    /\ LET c == ConstructCommand(cc.raw, cc.type)
       IN CASE c.tag = "raised" -> CcDone(c, Raises(c.exc))
            [] c.tag # "raised" /\ ~cc.writer ->
                 CcDone(c, Raises("ConnectionClosedError"))
            [] c.tag = "ok" /\ cc.writer ->
                 CcToTransmit(c, WrittenBytes(c.command))
            [] c.tag = "failure" /\ cc.writer ->
                 CcToTransmit(c, WrittenText(c.message))
    /\ UNCHANGED besidesConstruct

\* the exchange with the projector ends: ("ok", True) or (result, False)
\* from _async_send_command; from send_command the message, (str(err),
\* False) for the errors it catches, and TypeError for a final_cmd or an
\* ack that is no bytes
CcTransmit ==
    /\ cc.pc = "transmit"
    /\ \E result \in
           IF cc.impl = "JVCCommander" /\ cc.written.tag = "str"
           THEN {Raises("TypeError")}
           ELSE {Returned(IF success THEN "ok" ELSE "error", success) :
                    success \in BOOLEAN} :
         cc' = [cc EXCEPT !.pc = "done", !.result = result]
    /\ UNCHANGED besidesConstruct

(***************************************************************************)
(* The session of a JVCProjector.                                          *)
(***************************************************************************)
CommanderIdle ==
    /\ cpc = [p \in Callers |-> "idle"]
    /\ ccall = [p \in Callers |-> NoCCall]
    /\ cret = [p \in Callers |-> NoRet]

\* no handshake is watched
NoHandshake ==
    /\ hs_impl = "JVCProjector"
    /\ hs_password = ""
    /\ hs_server = "device"
    /\ hs_pc = "done"
    /\ hs_transcript = <<>>
    /\ hs_result = NoRet

\* JVCRemote.__init__ and the tasks of async_added_to_hass
RemoteIdle ==
    /\ command_queue = <<>>
    /\ attribute_queue = <<>>
    /\ attribute_getters = {}
    /\ counter = 0
    /\ stop_processing_commands = FALSE
    /\ resetting = FALSE
    /\ hq_pc = "hq_get"
    /\ hq_item = NoItem
    /\ uw_pc = "uw_check"

\* no slot of the table has been polled yet, the projector is in standby
TableIdle ==
    /\ attributes = [power_state |-> FALSE, signal_status |-> FALSE,
                     software_version |-> "", content_type_trans |-> "",
                     model |-> ""]
    /\ device = [power_state |-> FALSE, signal_status |-> FALSE,
                 software_version |-> "", content_type_trans |-> ""]
    /\ model_family = "Unsupported"
    /\ scheduled = {}

\* no function call is watched
NoArg == <<>>
NoValue == [kind |-> "none"]
FunctionIdle ==
    fn = [op |-> "none", arg |-> NoArg, pc |-> "done", result |-> NoValue]

\* the call of op with arg, before it runs
FunctionCall(op, arg) ==
    [op |-> op, arg |-> arg, pc |-> "call", result |-> NoValue]

\* the call returns value
FunctionReturns(value) ==
    /\ fn' = [fn EXCEPT !.pc = "done", !.result = value]
    /\ UNCHANGED besidesFunction

\* no command string is being sent
ConstructIdle ==
    cc = [impl |-> "JVCProjector", raw |-> "", type |-> HeaderOperation,
          list |-> FALSE, writer |-> FALSE, pc |-> "done",
          frame |-> NotConstructed, written |-> NothingWritten,
          result |-> NoResult]

ProjectorIdle ==
    /\ lock = UnlockedLock
    /\ writer = NoWriter
    /\ closing = FALSE
    /\ halted = FALSE
    /\ retry_interval = InitialInterval
    /\ pc = [p \in Procs |-> "idle"]
    /\ call = [p \in Callers |-> NoCall]
    /\ ret = [p \in Callers |-> NoRet]
    /\ conn_ok = "none"

Init ==
    /\ ProjectorIdle
    /\ CommanderIdle
    /\ RemoteIdle
    /\ TableIdle
    /\ cwriter = FALSE
    /\ NoHandshake
    /\ ConstructIdle
    /\ FunctionIdle

Next ==
    \/ Close
    \/ Halt
    \/ Resume
    \/ OpenConnection
    \/ \E p \in Procs : RcTop(p)
    \/ \E p \in Procs : RcHaltSleep(p)
    \/ \E p \in Procs : RcAcquire1(p)
    \/ \E p \in Procs : RcOpen(p)
    \/ \E p \in Procs : RcBackoff(p)
    \/ \E p \in Procs : RcAcquire2(p)
    \/ \E p \in Procs : HsReadGreeting(p)
    \/ \E p \in Procs : HsWriteRequest(p)
    \/ \E p \in Procs : HsReadAck(p)
    \/ \E p \in Callers : SendCommand(p)
    \/ \E p \in Callers : DcAcquire(p)
    \/ \E p \in Callers : DcWrite(p)
    \/ \E p \in Callers : DcRewrite(p)
    \/ \E p \in Callers : DcReadAck(p)
    \/ \E p \in Callers : DcReadMessage(p)

Spec == Init /\ [][Next]_vars

(***************************************************************************)
(* A JVCCommander constructed with or without a reader/writer pair, and    *)
(* concurrent send_command / do_reference_op calls on it.                  *)
(***************************************************************************)
InitCommander ==
    /\ ProjectorIdle
    /\ CommanderIdle
    /\ RemoteIdle
    /\ TableIdle
    /\ cwriter \in BOOLEAN
    /\ NoHandshake
    /\ ConstructIdle
    /\ FunctionIdle

NextCommander ==
    \/ \E p \in Callers : CSendCommand(p)
    \/ \E p \in Callers : CReadAck(p)
    \/ \E p \in Callers : CReadMessage(p)

SpecCommander == InitCommander /\ [][NextCommander]_vars

(***************************************************************************)
(* One handshake of an object of one of the three classes, with or without *)
(* a password, on a fresh connection to the mock or to a device.           *)
(***************************************************************************)
InitHandshake ==
    /\ ProjectorIdle
    /\ CommanderIdle
    /\ RemoteIdle
    /\ TableIdle
    /\ cwriter = FALSE
    /\ ConstructIdle
    /\ FunctionIdle
    /\ hs_impl \in HandshakeImpls
    /\ hs_password \in Passwords
    /\ hs_server \in HandshakeServers
    /\ hs_pc = "greeting"
    /\ hs_transcript = <<>>
    /\ hs_result = NoRet

NextHandshake ==
    \/ HandshakeReadGreeting
    \/ HandshakeWriteRequest
    \/ HandshakeReadAck
    \/ HandshakeGetModelFamily

SpecHandshake == InitHandshake /\ [][NextHandshake]_vars

(***************************************************************************)
(* The tasks of a JVCRemote on a connected session.                        *)
(***************************************************************************)
InitRemote ==
    /\ ProjectorIdle
    /\ CommanderIdle
    /\ cwriter = FALSE
    /\ NoHandshake
    /\ ConstructIdle
    /\ FunctionIdle
    /\ RemoteIdle
    /\ TableIdle

NextRemote ==
    \/ AsyncSendCommand
    \/ AsyncUpdateState
    \/ MakeUpdates
    \/ UwCheck
    \/ UwGet
    \/ HqGet
    \/ HqRun
    \/ HqPollTimeout
    \/ HqReset
    \/ HqCheckStop
    \/ ResetEverything
    \/ ResetFinally
    \/ AsyncTurnOff
    \/ AsyncTurnOn

SpecRemote == InitRemote /\ [][NextRemote]_vars

(***************************************************************************)
(* The polling of a JVCRemote: rounds of async_update_state on a table     *)
(* that earlier rounds filled, the power_state poll followed through the   *)
(* queues to handle_queue, and a projector that is switched on and off.    *)
(***************************************************************************)
\* the projector is switched on or off (remote control, standby timer)
DevicePower ==
    /\ device' = [device EXCEPT !.power_state = ~device.power_state]
    /\ UNCHANGED <<attributes, model_family, scheduled>>
    /\ UNCHANGED qvars
    /\ UNCHANGED besidesRemote

\* the tables the polls of earlier rounds leave; model is unset before the
\* first round
Tables(family) ==
    [power_state : BOOLEAN, signal_status : BOOLEAN,
     software_version : SoftwareVersions,
     content_type_trans : ContentTypeTransNames,
     model : {"", family}]

InitPolling ==
    /\ ProjectorIdle
    /\ CommanderIdle
    /\ cwriter = FALSE
    /\ NoHandshake
    /\ ConstructIdle
    /\ FunctionIdle
    /\ RemoteIdle
    /\ model_family \in Families
    /\ attributes \in Tables(model_family)
    /\ device = [power_state |-> attributes.power_state,
                 signal_status |-> attributes.signal_status,
                 software_version |-> attributes.software_version,
                 content_type_trans |-> attributes.content_type_trans]
    /\ scheduled = {}

NextPolling ==
    \/ DevicePower
    \/ AsyncUpdateState
    \/ MakeUpdates
    \/ UwCheck
    \/ UwGet
    \/ HqGet
    \/ HqRun
    \/ HqPollTimeout
    \/ HqReset
    \/ HqCheckStop

SpecPolling == InitPolling /\ [][NextPolling]_vars

(***************************************************************************)
(* The polls of a JVCRemote with a slow consumer: rounds of                *)
(* async_update_state start while polls of earlier rounds are still in the *)
(* queues.  make_updates is a task that loops with a sleep of 0.1 s and    *)
(* never waits for anything else, so its round is weakly fair.             *)
(***************************************************************************)
NextBacklog ==
    \/ AsyncUpdateStateBacklog
    \/ MakeUpdates
    \/ UwCheck
    \/ UwGet
    \/ HqGet
    \/ HqRun
    \/ HqPollTimeout
    \/ HqReset
    \/ HqCheckStop

SpecBacklog == InitRemote /\ [][NextBacklog]_vars

SpecBacklogFair == SpecBacklog /\ WF_vars(MakeUpdates)

(***************************************************************************)
(* One call of _async_send_command or send_command with a command string.  *)
(***************************************************************************)
\* the strings callers pass: a command name alone, or with a value after
\* the comma and spaces before the value
NamesTried == {"power", "menu", "laser_value", "current_output", "mro", "bogus"}
ValuesTried == DOMAIN PowerModes \cup DOMAIN MenuModes \cup {"50", "20", "sideways"}
RECURSIVE Spaces(_)
Spaces(n) == IF n = 0 THEN "" ELSE " " \o Spaces(n - 1)
SpacesTried == {Spaces(n) : n \in 0..MaxSpaces}
RawCommands ==
    NamesTried
    \cup {n \o "," \o sp \o v : n \in NamesTried, sp \in SpacesTried,
                                v \in ValuesTried}

\* the calls: a JVCProjector is called with the string or a list of it, a
\* JVCCommander has a writer or none
Calls ==
    {c \in {[impl |-> i, raw |-> r, type |-> t, list |-> l, writer |-> w,
             pc |-> "call", frame |-> NotConstructed,
             written |-> NothingWritten, result |-> NoResult] :
                i \in {"JVCProjector", "JVCCommander"}, r \in RawCommands,
                t \in CommandTypes, l \in BOOLEAN, w \in BOOLEAN} :
        /\ c.impl = "JVCProjector" => c.writer
        /\ c.impl = "JVCCommander" => ~c.list}

InitConstruct ==
    /\ ProjectorIdle
    /\ CommanderIdle
    /\ cwriter = FALSE
    /\ NoHandshake
    /\ RemoteIdle
    /\ TableIdle
    /\ cc \in Calls
    /\ FunctionIdle

NextConstruct ==
    \/ AsyncSendCommandCall
    \/ CommanderSendCommandCall
    \/ CcTransmit

SpecConstruct == InitConstruct /\ [][NextConstruct]_vars

(***************************************************************************)
(* Single calls of functions of the library.  replace_headers and          *)
(* _async_replace_headers take the byte strings of a small alphabet: the   *)
(* ack byte, the two unit bytes, "!" and "P".                              *)
(***************************************************************************)
ByteAlphabet == {6, 137, 1, 33, 80}
ByteStrings == UNION {[1..k -> ByteAlphabet] : k \in 0..MaxLen}

\* item with every header and footer replaced by b""
ReplaceHeadersCall ==
    /\ fn.pc = "call"
    /\ fn.op = "replace_headers"
    /\ FunctionReturns(replace_headers(fn.arg))

\* the members of PowerStates with their values
PowerStates ==
    [standby |-> <<48>>, on |-> <<49>>, cooling |-> <<50>>,
     reserved |-> <<51>>, emergency |-> <<52>>]

\* what the exchange of the power query comes back with: the success flag
\* and the message, a response frame with the state byte or the error text
PowerReplies ==
    {[success |-> ok, msg |-> <<64, 137, 1, 80, 87, b, 10>>] :
        ok \in BOOLEAN, b \in 48..53}

\* the function returns value
Gives(value) == [kind |-> "returned", value |-> value]

\* PowerStates(state).name
PowerStateName(state) ==
    IF \E n \in DOMAIN PowerStates : PowerStates[n] = state
    THEN Gives(CHOOSE n \in DOMAIN PowerStates : PowerStates[n] = state)
    ELSE Raises("ValueError")

\* _async_get_power_state: cmd is the sum of three bytes values and of
\* Commands.power_status.value; bytes + tuple raises TypeError
AsyncGetPowerState(reply) ==
    IF Commands["power_status"].val # "bare" THEN Raises("TypeError")
    ELSE IF ~reply.success THEN Gives(FALSE)
    ELSE PowerStateName(Replace(replace_headers(reply.msg), AckPower))

\* async_is_on: the power state is one of the names on, reserved
AsyncIsOn(reply) ==
    LET state == AsyncGetPowerState(reply)
    IN IF state.kind = "raised" THEN state
       ELSE Gives(state.value \in {"on", "reserved"})

AsyncIsOnCall ==
    /\ fn.pc = "call"
    /\ fn.op = "async_is_on"
    /\ FunctionReturns(AsyncIsOn(fn.arg))

\* commands.py: the families by model code
model_map ==
    [B5A1 |-> "NZ9", B5A2 |-> "NZ8", B5A3 |-> "NZ7", A2B1 |-> "NX9",
     A2B2 |-> "NX7", A2B3 |-> "NX5", B2A1 |-> "NX9", B2A2 |-> "NX7",
     B2A3 |-> "NX5", B5B1 |-> "NP5", XHR1 |-> "X570R",
     XHR3 |-> "X770R||X970R", XHP1 |-> "X5000", XHP2 |-> "XC6890",
     XHP3 |-> "X7000||X9000", XHK1 |-> "X500R", XHK2 |-> "RS4910",
     XHK3 |-> "X700R||X900R"]

\* the dict models of _get_modelfamily: it has no entries
models == [code \in {} |-> "Unsupported"]

\* the methods AsyncJVCProjector defines
AsyncJVCProjectorMethods ==
    {"open_connection", "reconnect", "_handshake", "_get_modelfamily",
     "close_connection"}

\* bytes.decode() of digits, capitals, the blank and the hyphen
Chr(b) ==
    IF b \in 48..57 THEN SubSeq("0123456789", b - 47, b - 47)
    ELSE IF b \in 65..90
         THEN SubSeq("ABCDEFGHIJKLMNOPQRSTUVWXYZ", b - 64, b - 64)
         ELSE IF b = 32 THEN " " ELSE "-"

RECURSIVE Decode(_)
Decode(bytes) ==
    IF bytes = <<>> THEN "" ELSE Chr(Head(bytes)) \o Decode(Tail(bytes))

\* model_res[-4:]
Last4(text) ==
    IF Len(text) <= 4 THEN text ELSE SubSeq(text, Len(text) - 3, Len(text))

\* what the device answers to the model query: the response header, "MD",
\* "ILAFPJ -- " and the model code B5A3, XHR1, ZZZ9 or none
ModelCodes == {<<66, 53, 65, 51>>, <<88, 72, 82, 49>>, <<90, 90, 90, 57>>, <<>>}
ModelReplies ==
    {<<64, 137, 1, 77, 68, 73, 76, 65, 70, 80, 74, 32, 45, 45, 32>>
        \o code \o <<10>> : code \in ModelCodes}

\* _get_modelfamily: cmd is the sum of three bytes values and of the tuple
\* Commands.get_model.value; the class has no _send_command; the decoded
\* reply is looked up in models by its last four characters
GetModelFamily(res) ==
    IF Commands["get_model"].val # "bare" THEN Raises("TypeError")
    ELSE IF "_send_command" \notin AsyncJVCProjectorMethods
         THEN Raises("AttributeError")
         ELSE LET model_res == Decode(replace_headers(res))
              IN IF Last4(model_res) \in DOMAIN models
                 THEN Gives(models[Last4(model_res)])
                 ELSE Gives("Unsupported")

GetModelFamilyCall ==
    /\ fn.pc = "call"
    /\ fn.op = "_get_modelfamily"
    /\ FunctionReturns(GetModelFamily(fn.arg))

\* _async_send_command with a list: the strings the lists are made of (two
\* commands, a value outside the Enum, an unknown name, no value) and the
\* lists of up to MaxList of them
ListCommands ==
    {"power,on", "menu,menu", "power,sideways", "nonsense,x", "menu"}
CommandLists == UNION {[1..k -> ListCommands] : k \in 0..MaxList}

\* the call with a list: i, the place of cmd in the list; written, the
\* frames written so far, each with the place of its command; acks, how
\* many exchanges the device has acknowledged; state, the low-latency
\* state that chose the list
SendListCall(send_command) ==
    [op |-> "_async_send_command", arg |-> send_command, pc |-> "call",
     result |-> NoValue, i |-> 1, written |-> <<>>, acks |-> 0,
     state |-> "None"]

\* async_get_low_latency_state: None after a failed query, False for the
\* state b"PM0", True otherwise
LowLatencyStates == {"None", "False", "True"}

\* the commands of async_gaming_mode_hdr
GamingModeHdrCommands(state) ==
    IF state = "True"
    THEN <<"picture_mode, hdr", "enhance, seven", "motion_enhance, off",
           "graphic_mode, hires1">>
    ELSE <<"picture_mode, hdr", "laser_dim, off", "low_latency, on",
           "enhance, seven", "motion_enhance, off", "graphic_mode, hires1">>

\* async_gaming_mode_hdr up to its call of async_exec_command(cmds)
GamingModeHdrCall ==
    /\ fn.pc = "query"
    /\ fn.op = "async_gaming_mode_hdr"
    /\ fn' = [SendListCall(GamingModeHdrCommands(fn.arg))
                 EXCEPT !.op = "async_gaming_mode_hdr", !.state = fn.arg]
    /\ UNCHANGED besidesFunction

\* the calls that go through the list loop of _async_send_command
ListSenders == {"_async_send_command", "async_gaming_mode_hdr"}

\* how an exchange of _async_do_command can go: the ack comes; the write
\* fails and the frame is written again after connection_lost(); no or a
\* wrong ack; the second write raises
ExchangeOutcomes == {"ack", "rewritten_ack", "no_ack", "ConnectionError"}
Acknowledged(outcome) == outcome \in {"ack", "rewritten_ack"}

\* every exchange counts as a success
DoCommandSuccess_Always(outcome) == outcome # "ConnectionError"

\* the success flag of _async_do_command: received_ack == ack_value
DoCommandSuccess(outcome) == Acknowledged(outcome)

\* for cmd in send_command: construct the command, return on no ack;
\* after the loop: return "ok", True (result is unbound after no pass)
SendListConstruct ==
    /\ fn.pc = "call"
    /\ fn.op \in ListSenders
    /\ IF fn.i > Len(fn.arg)
       THEN fn' = [fn EXCEPT
                      !.pc = "done",
                      !.result = IF fn.arg = <<>>
                                 THEN Raises("UnboundLocalError")
                                 ELSE Returned("ok", TRUE)]
       ELSE LET c == AsyncConstructCommand(fn.arg[fn.i], HeaderOperation)
            IN CASE c.tag = "ok" ->
                      fn' = [fn EXCEPT
                                !.pc = "exchange",
                                !.written = Append(@, <<fn.i, c.command>>)]
                 [] c.tag = "failure" ->
                      fn' = [fn EXCEPT
                                !.pc = "done",
                                !.result = Returned(c.message, FALSE)]
                 [] c.tag = "raised" ->
                      fn' = [fn EXCEPT !.pc = "done",
                                       !.result = Raises(c.exc)]
    /\ UNCHANGED besidesFunction

\* await self._async_do_command(cons_command, ack.value, command_type)
\* and "if not success: return result, success"
SendListExchange ==
    /\ fn.pc = "exchange"
    /\ fn.op \in ListSenders
    /\ \E outcome \in ExchangeOutcomes :
         LET written == IF outcome \in {"rewritten_ack", "ConnectionError"}
                        THEN Append(fn.written,
                                    fn.written[Len(fn.written)])
                        ELSE fn.written
             acks == IF Acknowledged(outcome) THEN fn.acks + 1 ELSE fn.acks
         IN IF outcome = "ConnectionError"
            THEN fn' = [fn EXCEPT !.pc = "done", !.written = written,
                                  !.result = Raises("ConnectionError")]
            ELSE IF DoCommandSuccess(outcome)
                 THEN fn' = [fn EXCEPT !.pc = "call", !.i = @ + 1,
                                       !.written = written, !.acks = acks]
                 ELSE fn' = [fn EXCEPT !.pc = "done", !.written = written,
                                       !.acks = acks,
                                       !.result = Returned("error", FALSE)]
    /\ UNCHANGED besidesFunction

InitFunctions ==
    /\ ProjectorIdle
    /\ CommanderIdle
    /\ cwriter = FALSE
    /\ NoHandshake
    /\ ConstructIdle
    /\ RemoteIdle
    /\ TableIdle
    /\ fn \in {FunctionCall("replace_headers", x) : x \in ByteStrings}
             \cup {FunctionCall("async_is_on", x) : x \in PowerReplies}
             \cup {FunctionCall("_get_modelfamily", x) : x \in ModelReplies}
             \cup {SendListCall(x) : x \in CommandLists}
             \cup {[FunctionCall("async_gaming_mode_hdr", x)
                       EXCEPT !.pc = "query"] : x \in LowLatencyStates}

NextFunctions ==
    \/ ReplaceHeadersCall
    \/ AsyncIsOnCall
    \/ GetModelFamilyCall
    \/ GamingModeHdrCall
    \/ SendListConstruct
    \/ SendListExchange

SpecFunctions == InitFunctions /\ [][NextFunctions]_vars

(***************************************************************************)
(* C1: in JVCProjector at most one exchange is in flight: while one call   *)
(* is between its frame write and its last read, every other call is idle  *)
(* or still waiting for the lock, so none of them writes a frame.          *)
(***************************************************************************)
InFlight(p) == pc[p] \in {"dc_read_ack", "dc_read_msg"}

C1_OneExchangeInFlight ==
    \A p, q \in Callers :
        (InFlight(p) /\ q # p) => pc[q] \in {"idle", "dc_lock"}

\* one call is in flight while another waits for the lock
C1_Witness ==
    \E p, q \in Callers : p # q /\ InFlight(p) /\ pc[q] = "dc_lock"

(***************************************************************************)
(* C2: in JVCCommander no two send_command calls use the socket at the     *)
(* same time: no call has written its frame while another call has written *)
(* its own and not finished reading the response.                          *)
(***************************************************************************)
CInFlight(p) == cpc[p] \in {"c_read_ack", "c_read_msg"}

C2_CommanderOneExchange ==
    \A p, q \in Callers : (CInFlight(p) /\ CInFlight(q)) => p = q

(***************************************************************************)
(* C3: no command frame is written to a connection whose handshake has not *)
(* completed successfully: every frame write of _async_do_command finds    *)
(* the session's socket handshaken.                                        *)
(***************************************************************************)
FrameWritten(p) ==
    /\ pc[p] \in {"dc_write", "dc_rewrite"}
    /\ pc'[p] = "dc_read_ack"

C3_NoFrameBeforeHandshake ==
    [][\A p \in Callers : FrameWritten(p) => writer.hs]_vars

(***************************************************************************)
(* C4: after a failed frame write the engine has released the lock before  *)
(* the reconnection starts, and the frame is written again only on the     *)
(* connection that this reconnection made.                                 *)
(***************************************************************************)
C4_LockReleasedBeforeReconnect ==
    \A p \in Callers :
        writer.hs =>
            /\ pc[p] \in {"rc_top", "rc_halt_sleep", "rc_lock1"} => lock.holder # p
            /\ (pc[p] = "dc_rewrite" /\ ~closing) => call[p].reconnected

(***************************************************************************)
(* C5: every command call returns a value/ack or a failure reason: no call *)
(* ends with the unhandled error of a failed write, and no call waits for  *)
(* a lock that it holds itself (a wait that can never end).                *)
(***************************************************************************)
WaitsForOwnLock(p) == pc[p] \in {"rc_lock1", "rc_lock2", "dc_lock"} /\ lock.holder = p

C5_EveryCallReturns ==
    [][\A p \in Callers :
          writer.hs => /\ ~WaitsForOwnLock(p)
                       /\ pc[p] = "dc_rewrite" => ret'[p].tag # "ConnectionError"]_vars

(***************************************************************************)
(* C6: a read deadline that expires gives the caller CommandTimeout and    *)
(* leaves the connection in place, and no command frame is written         *)
(* afterwards before a reconnect has replaced that connection.             *)
(***************************************************************************)
C6_ReconnectAfterTimeout ==
    [][\A p \in Callers :
          /\ (writer.hs /\ FrameWritten(p)) => ~writer.stale
          /\ (~writer.stale /\ writer'.stale /\ pc'[p] # pc[p])
                => (ret'[p] = Failure("CommandTimeout") /\ writer'.open)]_vars

(***************************************************************************)
(* C7: when the bytes read for the ack differ from the expected ack frame, *)
(* nothing is reported to the caller before the engine has reconnected and *)
(* written the frame again.                                                *)
(***************************************************************************)
C7_WrongAckRetried ==
    [][\A p \in Callers :
          (writer.hs /\ pc[p] = "dc_read_ack" /\ ret'[p].tag = "UnexpectedAck")
              => (call[p].reconnected /\ call[p].attempts >= 2)]_vars

(***************************************************************************)
(* C8: in both engines an operation exchange reports success only when the *)
(* bytes read equal the expected ack frame 0x06 0x89 0x01 ackCode 0x0A.    *)
(***************************************************************************)
C8_SuccessOnlyOnExpectedAck ==
    [][\A p \in Callers :
          /\ (pc[p] = "dc_read_ack" /\ call[p].type = HeaderOperation /\ ret'[p].ok)
                => ret'[p].data = AckValue(call[p].ack)
          /\ (cpc[p] = "c_read_ack" /\ ccall[p].type = HeaderOperation /\ cret'[p].ok)
                => ccall'[p].msg = AckValue(ccall[p].ack)]_vars

(***************************************************************************)
(* C9: a reference exchange of JVCCommander in which the ack read or the   *)
(* payload read returned no bytes ends with the BlankMessage failure: not  *)
(* with an empty value and not with another error raised.                  *)
(***************************************************************************)
C9_BlankReadReported ==
    \A p \in Callers :
        (/\ cpc[p] = "idle"
         /\ ccall[p].type = HeaderReference
         /\ (ccall[p].msg = <<>> \/ ccall[p].ref_msg = <<>>))
            => cret[p] = Failure("BlankMessage")

(***************************************************************************)
(* C10: a command call writes its frame at most 5 times; a transport fault *)
(* (failed write, wrong ack, empty read) is never what the call returns:   *)
(* it is retried, and the call that gives up returns RetryExceeded after   *)
(* its 5th attempt.                                                        *)
(***************************************************************************)
TransportFaults == {"UnexpectedAck", "ConnectionError"}

C10_RetriedUpToBound ==
    [][\A p \in Callers :
          /\ call'[p].attempts <= 5
          /\ (writer.hs /\ pc[p] # "idle" /\ pc'[p] = "idle")
                => /\ ret'[p].tag \notin TransportFaults
                   /\ ret'[p].tag = "RetryExceeded" => call[p].attempts = 5]_vars

(***************************************************************************)
(* C11: when the first read of the handshake gives bytes other than the    *)
(* greeting PJ_OK, the client writes nothing to the socket and the         *)
(* handshake reports failure.                                              *)
(***************************************************************************)
WrongGreeting ==
    /\ hs_transcript # <<>>
    /\ hs_transcript[1] # Read(PJ_OK)

C11_WrongGreetingNoWrite ==
    WrongGreeting =>
        /\ \A i \in 1..Len(hs_transcript) : hs_transcript[i].op # "write"
        /\ hs_pc = "done"
        /\ hs_result.tag \in {"greeting", "IncompleteReadError"}
        /\ ~hs_result.ok

\* a handshake ended after the device greeted with another literal
C11_Witness ==
    /\ hs_transcript = <<Read(PJ_NAK)>>
    /\ hs_pc = "done"
    /\ ~hs_result.ok

(***************************************************************************)
(* C12: the handshake of JVCProjector reports success if and only if its   *)
(* transcript is: read PJ_OK, write PJREQ (followed by "_" and the         *)
(* password exactly when a password is configured), read PJACK.            *)
(***************************************************************************)
ExpectedRequest ==
    IF hs_password = "" THEN "PJREQ" ELSE "PJREQ_" \o hs_password

ExpectedTranscript ==
    <<Read("PJ_OK"), Write(ExpectedRequest), Read("PJACK")>>

C12_SuccessIffTranscript ==
    hs_impl = "JVCProjector" =>
        ((hs_pc = "done" /\ hs_result.ok) <=> hs_transcript = ExpectedTranscript)

\* the mock accepted the password of a JVCProjector
C12_Witness ==
    /\ hs_impl = "JVCProjector"
    /\ hs_server = "JVCMock"
    /\ hs_password = MockPassword
    /\ hs_pc = "done"
    /\ hs_result.ok
    /\ hs_transcript = ExpectedTranscript

(***************************************************************************)
(* C13: once close() has been called the session makes no further          *)
(* connection attempt: no reconnect(), called directly or through          *)
(* connection_lost(), opens a socket after close().                        *)
(***************************************************************************)
\* the await of asyncio.open_connection ends, with a socket or an error
ConnectionAttempt(p) == pc[p] = "rc_open" /\ pc'[p] # "rc_open"

C13_NoAttemptAfterClose ==
    [][closing => \A p \in Procs : ~ConnectionAttempt(p)]_vars

(***************************************************************************)
(* C14: while the session is halted reconnect() makes no connection        *)
(* attempt: a reconnect() that found the session halted goes on only after *)
(* resume(), and no socket is opened while halted.                         *)
(***************************************************************************)
LeavesHaltedWait(p) == pc[p] = "rc_halt_sleep" /\ pc'[p] # "rc_halt_sleep"

C14_NoAttemptWhileHalted ==
    [][halted => \A p \in Procs : ~LeavesHaltedWait(p) /\ ~ConnectionAttempt(p)]_vars

(***************************************************************************)
(* C15: unless the session is closed or halted, a connection attempt that  *)
(* failed (connection error, connect timeout, failed handshake) is         *)
(* followed by the backoff wait and another attempt: reconnect() does not  *)
(* give up.                                                                *)
(***************************************************************************)
AttemptStates == {"rc_open", "rc_lock2", "hs_greeting", "hs_request", "hs_ack"}

AttemptEnds(p) == pc[p] \in AttemptStates /\ pc'[p] \notin AttemptStates

\* reconnect() returned ("Connection done", True)
AttemptSucceeded(p) ==
    /\ AttemptEnds(p)
    /\ IF p = Connector THEN conn_ok' = "ok" ELSE call'[p].reconnected

AttemptFailed(p) == AttemptEnds(p) /\ ~AttemptSucceeded(p)

C15_FailedAttemptRetried ==
    [][\A p \in Procs :
          (~closing /\ ~halted /\ AttemptFailed(p)) => pc'[p] = "rc_backoff"]_vars

(***************************************************************************)
(* C16: the retry interval after a failed attempt is min(300, 1.5 x the    *)
(* interval before it), it never exceeds 300, and it is 1 right after an   *)
(* attempt that succeeded.                                                 *)
(***************************************************************************)
\* new = min(300, 1.5 * old), on the fractions num/den
IsIncreased(old, new) ==
    IF 3 * old.num >= 600 * old.den
    THEN new.num = 300 * new.den
    ELSE 2 * new.num * old.den = 3 * old.num * new.den

C16_IntervalAfterAttempt ==
    [][/\ retry_interval'.num <= 300 * retry_interval'.den
       /\ \A p \in Procs :
            /\ AttemptFailed(p) => IsIncreased(retry_interval, retry_interval')
            /\ AttemptSucceeded(p) => retry_interval'.num = retry_interval'.den]_vars

(***************************************************************************)
(* C17: the interval waited after the first failed attempt of a session is *)
(* 1 time unit (the first term of min(300, 1.5^(k-1)), k = 1).  No attempt *)
(* has failed yet while the session has no socket and the interval is 1.   *)
(***************************************************************************)
NoFailureYet == writer = NoWriter /\ retry_interval = InitialInterval

\* the except handler goes to await asyncio.sleep(interval), interval being
\* the value of self._retry_interval at that moment
WaitsInterval(p) == pc[p] # "rc_backoff" /\ pc'[p] = "rc_backoff"

C17_FirstWaitIsOne ==
    [][\A p \in Procs :
          (NoFailureYet /\ WaitsInterval(p))
              => retry_interval'.num = retry_interval'.den]_vars

(***************************************************************************)
(* C18: handle_queue takes the entries of the command queue in increasing  *)
(* (priority, sequence) order: the entry it takes has a lower priority     *)
(* number than every entry left in the queue, or the same priority, a      *)
(* lower sequence id and an earlier put.  A command put after a poll is    *)
(* taken before it.                                                        *)
(***************************************************************************)
HqTakes == hq_pc = "hq_get" /\ hq_pc' = "hq_run"

Position(q, e) == CHOOSE i \in 1..Len(q) : q[i] = e

C18_PriorityThenSequence ==
    [][HqTakes =>
          \A j \in 1..Len(command_queue') :
              LET x == hq_item'
                  y == command_queue'[j]
              IN \/ x[1] < y[1]
                 \/ /\ x[1] = y[1]
                    /\ x[2][1] < y[2][1]
                    /\ Position(command_queue, x) < Position(command_queue, y)]_vars

\* of [priority 0, id 0], [priority 1, id 1], [priority 0, id 2] the worker
\* has taken id 0, then id 2, and id 1 is still in the queue
C18_Witness ==
    /\ hq_pc = "hq_run"
    /\ hq_item # NoItem
    /\ hq_item[1] = 0
    /\ hq_item[2][1] = 2
    /\ Len(command_queue) = 1
    /\ command_queue[1][1] = 1
    /\ command_queue[1][2][1] = 1

(***************************************************************************)
(* C19: the ids handed out by generate_unique_id are strictly increasing   *)
(* over the whole session: an id that is handed out is greater than every  *)
(* id handed out before, so greater than the id of every entry that is in  *)
(* a queue or in the hands of handle_queue.                                *)
(***************************************************************************)
IdsInUse ==
    {command_queue[i][2][1] : i \in 1..Len(command_queue)}
        \cup {attribute_queue[i][1] : i \in 1..Len(attribute_queue)}
        \cup (IF hq_item = NoItem THEN {} ELSE {hq_item[2][1]})

\* generate_unique_id returns the value of counter
IdHandedOut == counter' = counter + 1

C19_IdsStrictlyIncrease ==
    [][IdHandedOut => \A id \in IdsInUse : id < counter]_vars

(***************************************************************************)
(* C20: whenever update_worker puts a poll entry on the command queue, the *)
(* depth of the queue before the put is below 10.                          *)
(***************************************************************************)
PollsQueued(q) == Cardinality({i \in 1..Len(q) : q[i][1] = 1})

PollPut ==
    /\ Len(command_queue') = Len(command_queue) + 1
    /\ PollsQueued(command_queue') = PollsQueued(command_queue) + 1

C20_PollPutBelowThreshold ==
    [][PollPut => Len(command_queue) < 10]_vars

(***************************************************************************)
(* C21: while the stop signal is not set, every caller command in the      *)
(* queue is eventually taken by handle_queue.  A command that is queued    *)
(* while the signal is not set and handle_queue has finished is never      *)
(* taken, so no such state is reached.                                     *)
(***************************************************************************)
CommandQueued == \E i \in 1..Len(command_queue) : command_queue[i][1] = 0

C21_CommandEventuallyTaken ==
    (~stop_processing_commands /\ CommandQueued) => hq_pc # "hq_done"

(***************************************************************************)
(* C22: while the stop-processing signal is set, handle_queue takes no     *)
(* entry of the queue to execute it.                                       *)
(***************************************************************************)
C22_NothingExecutedWhileStopped ==
    [][stop_processing_commands => ~HqTakes]_vars

(***************************************************************************)
(* C23: when the stop-processing signal is cleared after it was set,       *)
(* handle_queue is still running.                                          *)
(***************************************************************************)
SignalCleared == stop_processing_commands /\ ~stop_processing_commands'

C23_WorkerRunsAfterStop ==
    [][SignalCleared => hq_pc' # "hq_done"]_vars

(***************************************************************************)
(* C24: when the getter of a poll times out or raises, the slot the poll   *)
(* names keeps its value and handle_queue stays in its loop: it is at the  *)
(* top of the loop again, or in one of the two resets that lead there.     *)
(***************************************************************************)
PollFails ==
    /\ hq_pc = "hq_run"
    /\ IsPoll(hq_item)
    /\ hq_pc' \notin {"hq_run", "hq_check_stop"}

AfterFailure ==
    /\ hq_pc \in {"hq_poll_timeout", "hq_reset"}
    /\ hq_pc' # hq_pc

C24_FailedPollKeepsSlot ==
    [][/\ (PollFails =>
              /\ attributes'[hq_item[2][3]] = attributes[hq_item[2][3]]
              /\ hq_pc' \in {"hq_get", "hq_poll_timeout", "hq_reset"})
        /\ (AfterFailure => hq_pc' = "hq_get")]_vars

\* a poll timed out while the projector reports another value than the slot
C24_Witness ==
    /\ hq_pc = "hq_poll_timeout"
    /\ IsPoll(hq_item)
    /\ attributes[hq_item[2][3]] # device[hq_item[2][3]]

(***************************************************************************)
(* C25: the attribute table changes only in the step in which handle_queue *)
(* got the value of a poll from its getter.                                *)
(***************************************************************************)
SuccessfulPoll ==
    /\ hq_pc = "hq_run"
    /\ IsPoll(hq_item)
    /\ hq_pc' = "hq_check_stop"

C25_OnlyWorkerWritesSlots ==
    [][attributes' # attributes => SuccessfulPoll]_vars

(***************************************************************************)
(* C26: when a round of async_update_state schedules the powered-on polls, *)
(* the power_state poll of that round has been executed: it waits neither  *)
(* in attribute_getters nor in a queue nor in the hands of handle_queue.   *)
(***************************************************************************)
CycleRuns ==
    /\ attribute_getters' # attribute_getters
    /\ attribute_getters \subseteq attribute_getters'

PoweredOnPollsScheduled ==
    <<"get_source_status", "signal_status">> \in scheduled

PowerPollPending ==
    \/ <<"is_on", "power_state">> \in attribute_getters
    \/ \E i \in 1..Len(attribute_queue) : attribute_queue[i][3] = "power_state"
    \/ \E i \in 1..Len(command_queue) :
          IsPoll(command_queue[i]) /\ command_queue[i][2][3] = "power_state"
    \/ hq_item # NoItem /\ IsPoll(hq_item) /\ hq_item[2][3] = "power_state"

C26_GateAfterPollSettled ==
    [][(CycleRuns /\ PoweredOnPollsScheduled') => ~PowerPollPending']_vars

(***************************************************************************)
(* C27: the attribute names one round of async_update_state schedules are  *)
(* those of rules 1 to 7 of the polling fan-out; power_state alone when    *)
(* the projector is not powered on.                                        *)
(***************************************************************************)
LaserFamily(family) == family \in {"NZ7", "NZ8", "NZ9"}

FanOutRules(attrs, family) ==
    {"power_state"}
    \cup
    (IF attrs.power_state
     THEN {"signal_status", "picture_mode", "software_version"}
          \cup (IF attrs.signal_status
                THEN {"content_type", "content_type_trans", "input_mode",
                      "anamorphic_mode", "resolution"}
                ELSE {})
          \cup (IF family # "Unsupported"
                THEN {"installation_mode", "aspect_ratio", "color_mode",
                      "input_level", "mask_mode"}
                ELSE {})
          \cup (IF LaserFamily(family)
                THEN {"laser_power", "laser_mode", "low_latency", "laser_time"}
                ELSE {"lamp_power", "lamp_time"})
          \cup (IF LaserFamily(family) /\ attrs.software_version = "3.00"
                THEN {"laser_value"}
                ELSE {})
          \cup (IF attrs.content_type_trans \in {"hdr10", "hlg"}
                THEN {"hdr_processing", "hdr_level", "hdr_data"}
                     \cup (IF LaserFamily(family)
                           THEN {"theater_optimizer"}
                           ELSE {})
                ELSE {})
     ELSE {})

ScheduledNames == {g[2] : g \in scheduled}

C27_FanOutFollowsRules ==
    [][CycleRuns => ScheduledNames' = FanOutRules(attributes, model_family)]_vars

(***************************************************************************)
(* C28: for a command whose values are the names of an Enum and a name of  *)
(* that Enum, with any number of spaces before the name, the constructed   *)
(* frame is the type, 0x89 0x01, the wire code, the bytes of the name and  *)
(* 0x0A; "power, on" as an operation is ! 0x89 0x01 P W 1 0x0A and         *)
(* "power, off" is ! 0x89 0x01 P W 0 0x0A.                                 *)
(***************************************************************************)
NamedValueCommands ==
    {n \in DOMAIN Commands : Commands[n].val \in DOMAIN ValueEnums}

ConstructionDone == cc.frame # NotConstructed

IsFrame(bytes) == cc.frame.tag = "ok" /\ cc.frame.command = bytes

C28_NamedValueFrame ==
    /\ \A n \in NamedValueCommands, sp \in SpacesTried :
         \A v \in DOMAIN ValueEnums[Commands[n].val] :
           (ConstructionDone /\ cc.raw = n \o "," \o sp \o v) =>
               IsFrame(cc.type \o <<137, 1>> \o Commands[n].code
                           \o ValueEnums[Commands[n].val][v] \o <<10>>)
    /\ (ConstructionDone /\ cc.raw = "power, on" /\ cc.type = <<33>>) =>
           IsFrame(<<33, 137, 1, 80, 87, 49, 10>>)
    /\ (ConstructionDone /\ cc.raw = "power, off" /\ cc.type = <<33>>) =>
           IsFrame(<<33, 137, 1, 80, 87, 48, 10>>)

\* "power,  on" was constructed and its frame handed to the transmit step
C28_Witness ==
    /\ cc.raw = "power,  on"
    /\ cc.type = <<33>>
    /\ cc.written = WrittenBytes(<<33, 137, 1, 80, 87, 49, 10>>)

(***************************************************************************)
(* C29: "laser_value, p" is constructed to the frame with the wire code    *)
(* PMCV and floor(1.1 * p + 0.5) + 109 as four uppercase hexadecimal       *)
(* digits; "laser_value, 50" as an operation is ! 0x89 0x01 PMCV00A4 0x0A. *)
(***************************************************************************)
PercentsTried == {"20", "50"}

DecimalValue(p) ==
    10 * DigitValue(SubSeq(p, 1, 1)) + DigitValue(SubSeq(p, 2, 2))

LaserValueCode(percent) == (11 * percent + 5) \div 10 + 109

HexDigit(d) == IF d < 10 THEN 48 + d ELSE 55 + d

Hex4(n) ==
    <<HexDigit((n \div 4096) % 16), HexDigit((n \div 256) % 16),
      HexDigit((n \div 16) % 16), HexDigit(n % 16)>>

C29_LaserValueFrame ==
    /\ \A p \in PercentsTried :
         (ConstructionDone /\ cc.raw = "laser_value, " \o p) =>
             IsFrame(cc.type \o <<137, 1>> \o <<80, 77, 67, 86>>
                         \o Hex4(LaserValueCode(DecimalValue(p))) \o <<10>>)
    /\ (ConstructionDone /\ cc.raw = "laser_value, 50" /\ cc.type = <<33>>) =>
           IsFrame(<<33, 137, 1, 80, 77, 67, 86, 48, 48, 65, 52, 10>>)

(***************************************************************************)
(* C30: an operation command whose name is no member of Commands, with or  *)
(* without a value, hands nothing to the transmit step and ends without    *)
(* success, in _async_send_command and in send_command.                    *)
(***************************************************************************)
UnknownName == Split(cc.raw)[1] \notin DOMAIN Commands

C30_UnknownCommandFails ==
    (UnknownName /\ cc.type = <<33>>) =>
        /\ cc.written = NothingWritten
        /\ cc.pc = "done" =>
              \/ cc.result.kind = "raised"
              \/ cc.result.kind = "returned" /\ ~cc.result.success

(***************************************************************************)
(* C31: an operation command of the table with a value that is no name of  *)
(* its Enum ("power, sideways") produces no frame, hands nothing to the    *)
(* transmit step and ends at once with the not-implemented error: the      *)
(* failure ("Not Implemented", False) or a NotImplementedError.            *)
(***************************************************************************)
ValueOutsideDomain ==
    /\ Len(Split(cc.raw)) = 2
    /\ Split(cc.raw)[1] \in NamedValueCommands
    /\ Lstrip(Split(cc.raw)[2])
           \notin DOMAIN ValueEnums[Commands[Split(cc.raw)[1]].val]

NotImplementedResult ==
    \/ cc.result = Returned("Not Implemented", FALSE)
    \/ cc.result = Raises("NotImplementedError")

C31_ValueOutsideDomainFails ==
    (/\ ValueOutsideDomain
     /\ cc.impl = "JVCProjector"
     /\ cc.type = <<33>>
     /\ cc.pc # "call") =>
        /\ cc.frame.tag # "ok"
        /\ cc.written = NothingWritten
        /\ cc.pc = "done"
        /\ NotImplementedResult

(***************************************************************************)
(* C32: what replace_headers returns contains none of the header and       *)
(* footer sequences, so replace_headers of it returns it unchanged.        *)
(***************************************************************************)
C32_ReplaceHeadersIdempotent ==
    (fn.op = "replace_headers" /\ fn.pc = "done") =>
        /\ \A i \in 1..Len(Headers) : ~Contains(fn.result, Headers[i])
        /\ replace_headers(fn.result) = fn.result

(***************************************************************************)
(* C33: async_is_on returns True exactly when the power query succeeded    *)
(* and the state in its reply is on or reserved, and returns False without *)
(* raising in every other case.                                            *)
(***************************************************************************)
RepliedState == <<fn.arg.msg[6]>>

C33_IsOnExactlyOnOrReserved ==
    (fn.op = "async_is_on" /\ fn.pc = "done") =>
        fn.result = Gives(/\ fn.arg.success
                          /\ RepliedState \in {PowerStates.on,
                                               PowerStates.reserved})

(***************************************************************************)
(* C34: after a successful handshake _get_modelfamily maps the decoded     *)
(* reply of the model query by its last four characters through model_map: *)
(* a listed code gives its family, any other value gives Unsupported.      *)
(***************************************************************************)
RepliedModelCode ==
    Last4(Decode(SubSeq(fn.arg, 4, Len(fn.arg) - 1)))

C34_ModelFamilyFromModelMap ==
    (fn.op = "_get_modelfamily" /\ fn.pc = "done") =>
        fn.result = Gives(IF RepliedModelCode \in DOMAIN model_map
                          THEN model_map[RepliedModelCode]
                          ELSE "Unsupported")

(***************************************************************************)
(* C35: the session holds at most one open socket: close() leaves no       *)
(* socket open, and when async_open_connection has reconnect() open a new  *)
(* socket the previous one has been closed first.                          *)
(***************************************************************************)
ClosesSession == ~closing /\ closing'
ConnectorOpensSocket ==
    pc[Connector] = "rc_open" /\ pc'[Connector] = "rc_lock2"

C35_OneOpenSocket ==
    [][/\ ClosesSession => ~writer'.open
       /\ ConnectorOpensSocket => ~writer.open]_vars

(***************************************************************************)
(* C36: _async_send_command with a list writes the frames of the commands  *)
(* in the order of the list, writes nothing at or after the first command  *)
(* that cannot be constructed or after a failed exchange, and returns      *)
(* ("ok", True) only when the device acknowledged every command.           *)
(***************************************************************************)
Constructable(raw_command) ==
    AsyncConstructCommand(raw_command, HeaderOperation).tag = "ok"

WrittenInListOrder ==
    /\ fn.written # <<>> => fn.written[1][1] = 1
    /\ \A k \in 1..Len(fn.written) :
          /\ fn.written[k][1] \in 1..Len(fn.arg)
          /\ fn.written[k][2] =
                 AsyncConstructCommand(fn.arg[fn.written[k][1]],
                                       HeaderOperation).command
          /\ \A j \in 1..fn.written[k][1] : Constructable(fn.arg[j])
          /\ k > 1 => fn.written[k][1] - fn.written[k - 1][1] \in {0, 1}

StoppedAfterFailure ==
    \A k \in 1..Len(fn.written) : fn.written[k][1] <= fn.acks + 1

LowLatencyOff == "False"
LowLatencyOffPreset == GamingModeHdrCommands(LowLatencyOff)

EveryExchangeAcknowledged ==
    /\ fn.result # Returned("error", FALSE)
    /\ fn.result # Raises("ConnectionError")

C37_GamingModeHdrSendsPreset ==
    (/\ fn.op = "async_gaming_mode_hdr"
     /\ fn.pc = "done"
     /\ fn.state = LowLatencyOff
     /\ EveryExchangeAcknowledged) =>
        /\ fn.result = Returned("ok", TRUE)
        /\ \A i \in 1..Len(LowLatencyOffPreset) :
              \E k \in 1..Len(fn.written) : fn.written[k][1] = i

(***************************************************************************)
(* C38: at any time at most one poll job of a (getter, attribute) pair is  *)
(* pending in attribute_queue and the command queue together.              *)
(***************************************************************************)
PendingPolls(g) ==
    Cardinality({k \in 1..Len(attribute_queue) :
                    <<attribute_queue[k][2], attribute_queue[k][3]>> = g})
    + Cardinality({k \in 1..Len(command_queue) :
                      /\ IsPoll(command_queue[k])
                      /\ <<command_queue[k][2][2], command_queue[k][2][3]>> = g})

C38_OnePendingPollPerPair == \A g \in Getters : PendingPolls(g) <= 1

(***************************************************************************)
(* C39: a pair leaves attribute_getters only in a round of make_updates    *)
(* that puts it on attribute_queue, and every pair added to                *)
(* attribute_getters does leave it that way.                               *)
(***************************************************************************)
PutOnAttributeQueue(g) ==
    /\ Len(attribute_queue') > Len(attribute_queue)
    /\ \E k \in (Len(attribute_queue) + 1)..Len(attribute_queue') :
          <<attribute_queue'[k][2], attribute_queue'[k][3]>> = g

C39_AddedPairsAreEnqueued ==
    /\ [][\A g \in attribute_getters \ attribute_getters' :
             PutOnAttributeQueue(g)]_vars
    /\ \A g \in Getters :
          (g \in attribute_getters) ~> (g \notin attribute_getters)

C39_Witness ==
    \E g \in Getters : g \in attribute_getters /\ PendingPolls(g) = 1

(***************************************************************************)
(* C40: no two entries that are in the command queue at the same time have *)
(* the same priority and the same unique id.                               *)
(***************************************************************************)
C40_UniquePriorityAndId ==
    \A i, j \in 1..Len(command_queue) :
        i # j => <<command_queue[i][1], command_queue[i][2][1]>>
                     # <<command_queue[j][1], command_queue[j][2][1]>>

C40_Witness ==
    /\ resetting
    /\ \E i, j \in 1..Len(command_queue) :
          /\ i # j
          /\ command_queue[i][1] = command_queue[j][1]
    /\ \E i \in 1..Len(command_queue) : IsPoll(command_queue[i])

====
